---- MODULE Spec2Model ----
(***************************************************************************)
(* Model of the witchbolt stream replication controller: commit            *)
(* observation (OnPageFlush), generation management, shadow-log staging,   *)
(* replica fan-out with per-replica manifests, snapshotting and restore.   *)
(*                                                                         *)
(* Files are sequences of bytes (naturals); a page is PageSize bytes.      *)
(* Time is a natural number of clock ticks; 0 is Go's zero time.Time.      *)
(* Generation ids are positive integers in minting order; 0 is "".         *)
(***************************************************************************)
EXTENDS Integers, Sequences, FiniteSets, TLC

\* ---------------------------------------------------------------- bounds
\* highest transaction id the host commits
MaxTxID == 3
\* number of configured replicas
NumReplicas == 2
\* number of pages of the database file
NumPages == 2
\* bytes per page
PageSize == 2
\* injected I/O failures per behaviour
MaxFaults == 2
\* idle clock ticks per behaviour
MaxTicks == 1
\* restores per behaviour
MaxRestores == 1
\* snapshot interval the operator configures (ticks); 0 is "unset"
ConfiguredInterval == 2
\* Config.Retention.SnapshotRetention as configured, in ticks
ConfiguredRetention == 1
\* DataLossWindow calls observed in one behaviour
MaxCalls == 2
\* clock ticks in one second: the resolution of the wall clock
TicksPerSecond == 2

\* bits of a uint32 (the width of PageFrame.Overflow)
Uint32Bits == 3
\* highest compression level a configuration gives
MaxLevel == 13

\* 6 * time.Hour, in clock ticks
DefaultSnapshotInterval == 3

Replicas == 1..NumReplicas
Codecs == {"none", "zstd"}

VARIABLES
    dbFile,           \* host: bytes of the live database file
    hostTx,           \* host: id of the last committed transaction
    codec,            \* Controller.compression.Codec
    backend,          \* per replica: the configured backend
    snapshotInterval, \* Controller.config.SnapshotInterval
    started,          \* Start has run
    currentGen,       \* Controller.currentGen
    lastTxID,         \* Controller.lastTxID
    lastSnapshot,     \* Controller.lastSnapshot
    lastReplication,  \* Controller.lastReplication
    replicaLag,       \* Controller.replicaLag (0: no entry)
    retentionCh,      \* number of signals buffered in Controller.retentionCh
    genCount,         \* generations minted so far
    now,              \* wall clock
    shadowSegs,       \* segment files under shadowDir
    shadowSnaps,      \* snapshot files under shadowDir
    replicas,         \* per replica: stored objects and the manifest
    pc,               \* position of the OnPageFlush call in flight
    call,             \* the OnPageFlush call in flight / last returned
    faults,           \* I/O failures injected so far
    target,           \* bytes of the file at the restore target path
    restoreRes,       \* outcome of the last restore
    supplied,         \* the snapshot and segments handed to restoreToTarget
    tmp,              \* the temporary file of the restoreToTarget in progress
    hist,             \* history: what has happened to the controller so far
    window,           \* the DataLossWindow calls made and the last result
    life,             \* closeCh, the retention goroutine and the Stop call
    decoding,         \* a segment file given to decodeSegmentFile and its result
    validating,       \* a PageFrame given to validate and its result
    normalizing,      \* a CompressionConfig given to normalized and its result
    parked,           \* OnPageFlush calls in flight on other host threads
    puts              \* Put calls running concurrently on one replica

vars == <<dbFile, hostTx, codec, backend, snapshotInterval, started,
          currentGen, lastTxID, lastSnapshot, lastReplication, replicaLag,
          retentionCh, genCount, now, shadowSegs, shadowSnaps, replicas, pc,
          call, faults, target, restoreRes, supplied, tmp, hist, window,
          life, decoding, validating, normalizing, parked, puts>>

hostVars == <<dbFile, hostTx>>
ctrlVars == <<currentGen, lastTxID, lastSnapshot, lastReplication, replicaLag,
              retentionCh, genCount>>
cfgVars == <<codec, backend, snapshotInterval, started>>
storeVars == <<shadowSegs, shadowSnaps, replicas>>
restoreVars == <<target, restoreRes, supplied, tmp>>
pureVars == <<validating, normalizing>>
concVars == <<parked, puts>>
callerVars == <<window, life, decoding, pureVars, concVars>>

\* ------------------------------------------------------------ byte files
Max(a, b) == IF a > b THEN a ELSE b

Zeros(n) == [i \in 1..n |-> 0]

\* os.File.WriteAt: overwrite at a byte offset, extending the file
WriteAt(f, data, off) ==
    [i \in 1..Max(Len(f), off + Len(data)) |->
        IF i > off /\ i <= off + Len(data) THEN data[i - off]
        ELSE IF i <= Len(f) THEN f[i]
        ELSE 0]

\* the bytes transaction txID writes into a frame of n bytes
FrameData(txID, n) == [i \in 1..n |-> 10 * txID + i]

PageFrame(id, overflow, txID) ==
    [ID |-> id, Overflow |-> overflow,
     Data |-> FrameData(txID, (overflow + 1) * PageSize)]

\* the frame lists a host transaction may flush: transaction txID dirties
\* page txID mod NumPages
HostFrames(txID) == { <<PageFrame(txID % NumPages, 0, txID)>> }

RECURSIVE WriteFrames(_, _, _)
WriteFrames(f, frames, pageSize) ==
    IF frames = <<>> THEN f
    ELSE WriteFrames(WriteAt(f, Head(frames).Data, Head(frames).ID * pageSize),
                     Tail(frames), pageSize)

\* host commit: the dirty pages are written to the database file
HostCommit(f, frames) == WriteFrames(f, frames, PageSize)

\* conversion to uint32: the low Uint32Bits bits
uint32(x) == x % (2 ^ Uint32Bits)

\* PageFrame.validate: nil (FALSE) when the frame has the expected length;
\* the product is formed in uint32 and converted to a 64-bit int
validate(f, pageSize) ==
    LET expected == uint32(uint32(f.Overflow + 1) * uint32(pageSize))
    IN Len(f.Data) # expected

\* ---------------------------------------------------------------- codec
\* the table of normalizeZSTDLevel, indexed from 0
zstdLevelTable == <<0, -5, -3, -1, 0, 3, 6, 9, 12, 15, 18, 22>>

normalizeZSTDLevel(level) ==
    IF level <= 0 THEN 0
    ELSE zstdLevelTable[(IF level > 11 THEN 11 ELSE level) + 1]

normalizeCompressionSettings(settings) ==
    IF settings.Codec = "zstd"
    THEN [settings EXCEPT !.Level = normalizeZSTDLevel(@), !.Window = 0]
    ELSE [settings EXCEPT !.Level = 0, !.Window = 0]

\* CompressionConfig.normalized; the codec "" is an unset codec
normalized(c) ==
    normalizeCompressionSettings(
        IF c.Codec = ""
        THEN [c EXCEPT !.Codec = "zstd",
                       !.Level = IF c.Level = 0 THEN 6 ELSE c.Level]
        ELSE c)

compressBuffer(c, payload) ==
    IF c = "none" THEN payload ELSE <<"zstd", payload>>

decompressBuffer(c, payload) ==
    IF c = "none" THEN payload ELSE payload[2]

RECURSIVE ByteSum(_, _)
ByteSum(data, i) ==
    IF i > Len(data) THEN 0 ELSE i * data[i] + ByteSum(data, i + 1)

RECURSIVE PagesSum(_, _)
PagesSum(pages, k) ==
    IF k > Len(pages) THEN 0
    ELSE k * (pages[k].ID + 2 * pages[k].Overflow + ByteSum(pages[k].Data, 1))
         + PagesSum(pages, k + 1)

\* crc64.Checksum of a compressed payload: a 16-bit digest of the bytes the
\* payload of codec c stands for
crc64(c, data) ==
    LET p == decompressBuffer(c, data)
    IN ((IF c = "none" THEN 0 ELSE 1) + 3 * p.Header.TxID
        + 5 * p.Header.ParentTxID + 7 * p.Header.CreatedAt
        + PagesSum(p.Pages, 1)) % 65536

buildSegment(txID, parentTxID, frames, createdAt) ==
    LET header == [TxID |-> txID, ParentTxID |-> parentTxID,
                   PageCount |-> Len(frames), PageSize |-> PageSize,
                   Compression |-> codec, CreatedAt |-> createdAt,
                   Checksum |-> 0]
        compressed == compressBuffer(codec,
                                     [Header |-> header, Pages |-> frames])
    IN [Header |-> [header EXCEPT !.Checksum = crc64(codec, compressed)],
        Pages |-> frames,
        Data |-> compressed]

\* cborEncMode (canonical options) writes a time.Time as the integer number
\* of seconds since the epoch
cborTime(t) == (t \div TicksPerSecond) * TicksPerSecond

\* a stored artefact: fmt "file" is the CBOR container {header, data},
\* "data" is the bare compressed payload, "partial" a truncated write
marshalSegment(seg) ==
    [fmt |-> "file",
     Header |-> [seg.Header EXCEPT !.CreatedAt = cborTime(@)],
     Data |-> seg.Data]
marshalSnapshot(snap) ==
    [fmt |-> "file",
     Header |-> [snap.Header EXCEPT !.CreatedAt = cborTime(@)],
     Data |-> snap.Data]
BarePayload(art) == [fmt |-> "data", Header |-> art.Header, Data |-> art.Data]
Truncated(art) == [fmt |-> "partial", Header |-> art.Header, Data |-> art.Data]

\* ----------------------------------------------------------- generations
\* mutation: the parentTxID gap no longer rotates the generation
NeedsNewGenerationNoGap(generation, last, parentTxID) ==
    generation = 0

\* persistSegment: mint a generation for the first call or a broken chain
NeedsNewGeneration(generation, last, parentTxID) ==
    generation = 0 \/ (last # 0 /\ parentTxID # last)

\* ------------------------------------------------------------- manifests
NoSnapshot == [Gen |-> 0, CreatedAt |-> 0, TxID |-> 0]

EmptyState == [Generation |-> 0, Snapshot |-> NoSnapshot, Segments |-> <<>>,
               LastUploaded |-> 0]

SegmentDescriptor(generation, seg) ==
    [Gen |-> generation, TxID |-> seg.Header.TxID,
     FirstTxID |-> seg.Header.ParentTxID + 1, LastTxID |-> seg.Header.TxID]

SnapshotDescriptor(generation, snap) ==
    [Gen |-> generation, CreatedAt |-> snap.Header.CreatedAt,
     TxID |-> snap.Header.TxID]

\* FileReplica.appendSegment
appendSegment(state, generation, desc, t) ==
    LET s == IF state.Generation # generation
             THEN [EmptyState EXCEPT !.Generation = generation]
             ELSE state
    IN [s EXCEPT !.Segments = Append(s.Segments, desc), !.LastUploaded = t]

\* FileReplica.PutSnapshot's updateState: the manifest is replaced
fileUpdateState(generation, desc, t) ==
    [Generation |-> generation, Snapshot |-> desc, Segments |-> <<>>,
     LastUploaded |-> t]

\* S3CompatibleReplica.updateState with a snapshot descriptor
s3UpdateSnapshot(state, generation, desc, t) ==
    LET s == IF state.Generation # generation
             THEN [EmptyState EXCEPT !.Generation = generation]
             ELSE state
    IN [s EXCEPT !.Snapshot = desc, !.Segments = <<>>, !.LastUploaded = t]

\* S3CompatibleReplica.updateState with a segment descriptor
s3UpdateSegment(state, generation, desc, t) ==
    LET s == IF state.Generation # generation
             THEN [EmptyState EXCEPT !.Generation = generation]
             ELSE state
    IN [s EXCEPT !.Segments = Append(s.Segments, desc), !.LastUploaded = t]

ReplicaKind(r) == IF r % 2 = 1 THEN "file" ELSE "s3"

\* the object a replica stores for an artefact
StoredObject(r, marshalled) ==
    IF ReplicaKind(r) = "file" THEN marshalled ELSE BarePayload(marshalled)

\* os.WriteFile / PutObject: the object at a name is replaced
PutFile(files, key, body) ==
    { f \in files : f.key # key } \cup { [key |-> key, body |-> body] }

\* ------------------------------------------------------------ call state
NoSegment == [Header |-> [TxID |-> 0, ParentTxID |-> 0, PageCount |-> 0,
                          PageSize |-> 0, Compression |-> "none",
                          CreatedAt |-> 0, Checksum |-> 0],
              Pages |-> <<>>, Data |-> <<>>]

NoSnap == [Header |-> [TxID |-> 0, PageCount |-> 0, PageSize |-> 0,
                       Compression |-> "none", CreatedAt |-> 0],
           Data |-> <<>>]

\* begun: the last replica whose PutSegment has been called, where the
\* call and its return are told apart
NoCall == [n |-> 0, TxID |-> 0, ParentTxID |-> 0, segment |-> NoSegment,
           generation |-> 0, prevTxID |-> 0, prevGen |-> 0, minted |-> 0,
           staged |-> FALSE, idx |-> 0, attempted |-> {}, failed |-> {},
           errs |-> <<>>, snap |-> NoSnap, snapTaken |-> FALSE,
           snapErrs |-> <<>>, ret |-> "none", prevStaged |-> TRUE,
           begun |-> 0]

\* fullSnaps: the creation times of the snapshots createSnapshot returned;
\* retry: a PutSnapshot failed in the last call that ran maybeSnapshot;
\* dropped: a trigger was raised with one pending while the retention
\* goroutine was in a pass or had exited
NoHistory == [allOK |-> TRUE, firstSnap |-> FALSE, wiped |-> FALSE,
              fullSnaps |-> {}, retry |-> FALSE, dropped |-> FALSE]

NoSupplied == [snapshot |-> NoSnap, segments |-> <<>>, image |-> <<>>]

\* step: where restoreToTarget stands; exists, bytes: the temporary file;
\* todo: the segments applySegments has still to write; before: the target
\* file when restoreToTarget was entered
NoTemp == [step |-> "none", exists |-> FALSE, bytes |-> <<>>,
           todo |-> <<>>, before |-> <<>>]

\* the txIDs of the snapshot and of the segments applySegments wrote
NoApplied == [snapshot |-> 0, segments |-> <<>>]

NoRestore == [n |-> 0, entry |-> "none", err |-> "none",
              localFound |-> FALSE, contacted |-> {}, source |-> 0,
              latestErr |-> {}, failAt |-> 0, applied |-> NoApplied]

\* nothing handed to decodeSegmentFile
NoDecoding == [segment |-> NoSegment, file |-> Truncated(NoSegment),
               intact |-> FALSE, done |-> FALSE,
               out |-> [err |-> FALSE, seg |-> NoSegment]]

\* no DataLossWindow call made yet
NoWindow == [n |-> 0, result |-> 0, lastRep |-> 0,
             lag |-> [r \in Replicas |-> 0]]

\* a constructed controller: Start not called (configured: -1), closeCh
\* open, no retention goroutine, the observer registered, Stop not called,
\* no replica closed
NoLife == [configured |-> -1, closeCh |-> "open", loop |-> "none", gen |-> 0,
           observer |-> TRUE, stop |-> "none", onStarted |-> FALSE, idx |-> 0,
           closes |-> [r \in Replicas |-> 0], errs |-> <<>>, ret |-> "none"]

\* no frame given to validate
NoValidating == [frame |-> [ID |-> 0, Overflow |-> 0, Data |-> <<>>],
                 pageSize |-> 0, done |-> FALSE, err |-> FALSE]

\* no Put call running on a replica: the replica, the holder of its
\* mutex, the calls, and the calls in the order their manifest writes
\* succeeded
NoPuts == [replica |-> 0, mu |-> 0, calls |-> <<>>, order |-> <<>>]

\* no configuration given to normalized
NoNormalizing == [config |-> [Codec |-> "", Level |-> 0, Window |-> 0],
                  given |-> FALSE, done |-> FALSE,
                  out |-> [Codec |-> "", Level |-> 0, Window |-> 0]]

Init ==
    /\ dbFile = Zeros(NumPages * PageSize)
    /\ hostTx = 0
    /\ codec = "zstd"
    /\ backend = [r \in Replicas |-> ReplicaKind(r)]
    /\ snapshotInterval \in {0, ConfiguredInterval}
    /\ started = FALSE
    /\ currentGen = 0
    /\ lastTxID = 0
    /\ lastSnapshot = 0
    /\ lastReplication = 0
    /\ replicaLag = [r \in Replicas |-> 0]
    /\ retentionCh = 0
    /\ genCount = 0
    /\ now = 1
    /\ shadowSegs = {}
    /\ shadowSnaps = {}
    /\ replicas = [r \in Replicas |->
                     [segs |-> {}, snaps |-> {}, state |-> EmptyState]]
    /\ pc = "idle"
    /\ call = NoCall
    /\ faults = 0
    /\ target = Zeros(NumPages * PageSize)
    /\ restoreRes = NoRestore
    /\ supplied = NoSupplied
    /\ tmp = NoTemp
    /\ hist = NoHistory
    /\ window = NoWindow
    /\ life = NoLife
    /\ decoding = NoDecoding
    /\ validating = NoValidating
    /\ normalizing = NoNormalizing
    /\ parked = {}
    /\ puts = NoPuts

\* --------------------------------------------------------------- restore
\* decodeSnapshotFile: only a complete CBOR container decodes
decodeSnapshotFile(body) ==
    [err |-> body.fmt # "file",
     snap |-> [Header |-> body.Header, Data |-> body.Data]]

\* populateSegmentPages: the frames are decoded from the payload unless
\* the segment already carries them
populateSegmentPages(seg) ==
    IF Len(seg.Pages) > 0 THEN seg
    ELSE [seg EXCEPT
            !.Pages = decompressBuffer(seg.Header.Compression, seg.Data).Pages]

decodeSegmentFile(body) ==
    [err |-> body.fmt # "file",
     seg |-> populateSegmentPages(
                [Header |-> body.Header, Pages |-> <<>>, Data |-> body.Data])]

RECURSIVE InsertByTxID(_, _)
InsertByTxID(seg, sorted) ==
    IF sorted = <<>> THEN <<seg>>
    ELSE IF seg.Header.TxID < Head(sorted).Header.TxID THEN <<seg>> \o sorted
    ELSE <<Head(sorted)>> \o InsertByTxID(seg, Tail(sorted))

\* sort.Slice by Header.TxID
RECURSIVE SortByTxID(_)
SortByTxID(segs) ==
    IF segs = <<>> THEN <<>>
    ELSE InsertByTxID(Head(segs), SortByTxID(Tail(segs)))

\* applySegments: every frame of every segment, segments in txID order, is
\* written at byte offset frame.ID * pageSize
RECURSIVE WriteSegments(_, _, _)
WriteSegments(f, segs, pageSize) ==
    IF segs = <<>> THEN f
    ELSE WriteSegments(
            WriteFrames(f, populateSegmentPages(Head(segs)).Pages, pageSize),
            Tail(segs), pageSize)

\* mutation: the segments are applied in the order they were supplied in
applySegmentsAsSupplied(f, pageSize, segments) ==
    IF Len(segments) = 0 THEN f
    ELSE WriteSegments(f, segments, pageSize)

applySegments(f, pageSize, segments) ==
    IF Len(segments) = 0 THEN f
    ELSE WriteSegments(f, SortByTxID(segments), pageSize)

\* the file restoreToTarget renames onto the target path
RestoredImage(snapshot, segments) ==
    applySegments(decompressBuffer(snapshot.Header.Compression, snapshot.Data),
                  snapshot.Header.PageSize, segments)

\* os.ReadDir order of a segments directory: by file name, i.e. by txID
RECURSIVE SegmentFilesInOrder(_)
SegmentFilesInOrder(files) ==
    IF files = {} THEN <<>>
    ELSE LET m == CHOOSE f \in files : \A g \in files : f.key[2] <= g.key[2]
         IN <<m>> \o SegmentFilesInOrder(files \ {m})

\* os.ReadDir order of a snapshots directory: by timestamp, then txID
RECURSIVE SnapshotFilesInOrder(_)
SnapshotFilesInOrder(files) ==
    IF files = {} THEN <<>>
    ELSE LET m == CHOOSE f \in files : \A g \in files :
                    \/ f.key[2] < g.key[2]
                    \/ (f.key[2] = g.key[2] /\ f.key[3] <= g.key[3])
         IN <<m>> \o SnapshotFilesInOrder(files \ {m})

\* a loader that keeps every segment that decodes
RECURSIVE DecodeSegmentFilesUnfiltered(_, _)
DecodeSegmentFilesUnfiltered(files, afterTxID) ==
    IF files = <<>> THEN [err |-> FALSE, segments |-> <<>>]
    ELSE LET d == decodeSegmentFile(Head(files).body)
             rest == DecodeSegmentFilesUnfiltered(Tail(files), afterTxID)
         IN IF d.err \/ rest.err THEN [err |-> TRUE, segments |-> <<>>]
            ELSE [rest EXCEPT !.segments = <<d.seg>> \o @]

RECURSIVE DecodeSegmentFiles(_, _)
DecodeSegmentFiles(files, afterTxID) ==
    IF files = <<>> THEN [err |-> FALSE, segments |-> <<>>]
    ELSE LET d == decodeSegmentFile(Head(files).body)
             rest == DecodeSegmentFiles(Tail(files), afterTxID)
         IN IF d.err \/ rest.err THEN [err |-> TRUE, segments |-> <<>>]
            ELSE IF d.seg.Header.TxID <= afterTxID THEN rest
            ELSE [rest EXCEPT !.segments = <<d.seg>> \o @]

\* loadSegmentsFromDir on <shadow>/<generation>/segments
loadSegmentsFromDir(generation, afterTxID) ==
    LET l == DecodeSegmentFiles(
                SegmentFilesInOrder({f \in shadowSegs : f.key[1] = generation}),
                afterTxID)
    IN [l EXCEPT !.segments = SortByTxID(@)]

NothingFound == [err |-> FALSE, found |-> FALSE, snapshot |-> NoSnap,
                 segments |-> <<>>, created |-> 0]

\* the snapshot loop of localRestoreState over the files in directory order
RECURSIVE ScanSnapshots(_, _)
ScanSnapshots(files, best) ==
    IF files = <<>> THEN best
    ELSE LET d == decodeSnapshotFile(Head(files).body)
             l == loadSegmentsFromDir(Head(files).key[1], d.snap.Header.TxID)
         IN IF d.err THEN ScanSnapshots(Tail(files), best)
            ELSE IF best.found /\ ~(d.snap.Header.CreatedAt > best.created)
            THEN ScanSnapshots(Tail(files), best)
            ELSE IF l.err THEN [NothingFound EXCEPT !.err = TRUE]
            ELSE ScanSnapshots(Tail(files),
                    [err |-> FALSE, found |-> TRUE, snapshot |-> d.snap,
                     segments |-> l.segments,
                     created |-> d.snap.Header.CreatedAt])

ShadowGenerations == { f.key[1] : f \in shadowSnaps }

Perms(S) ==
    { p \in [1..Cardinality(S) -> S] :
        \A i, j \in 1..Cardinality(S) : i # j => p[i] # p[j] }

RECURSIVE SnapshotFilesOfGenerations(_)
SnapshotFilesOfGenerations(order) ==
    IF order = <<>> THEN <<>>
    ELSE SnapshotFilesInOrder({f \in shadowSnaps : f.key[1] = Head(order)})
         \o SnapshotFilesOfGenerations(Tail(order))

\* Controller.localRestoreState; order is the order in which os.ReadDir
\* lists the generation directories
localRestoreState(order) ==
    ScanSnapshots(SnapshotFilesOfGenerations(order), NothingFound)

\* Replica.FetchSnapshot through a manifest descriptor
FetchSnapshot(r, desc, ioErr) ==
    LET objs == { o \in replicas[r].snaps :
                    o.key = <<desc.Gen, desc.CreatedAt, desc.TxID>> }
    IN IF ioErr \/ objs = {} THEN [err |-> TRUE, snap |-> NoSnap]
       ELSE decodeSnapshotFile((CHOOSE o \in objs : TRUE).body)

\* Replica.FetchSegment through a manifest descriptor
FetchSegment(r, desc, ioErr) ==
    LET objs == { o \in replicas[r].segs : o.key = <<desc.Gen, desc.TxID>> }
    IN IF ioErr \/ objs = {} THEN [err |-> TRUE, seg |-> NoSegment]
       ELSE decodeSegmentFile((CHOOSE o \in objs : TRUE).body)

\* mutation: a segment whose fetch fails is left out and the loop goes on
RECURSIVE FetchSegmentsSkipFailed(_, _, _, _)
FetchSegmentsSkipFailed(r, descs, i, failAt) ==
    IF descs = <<>> THEN [err |-> FALSE, segments |-> <<>>]
    ELSE LET d == FetchSegment(r, Head(descs), i = failAt)
             rest == FetchSegmentsSkipFailed(r, Tail(descs), i + 1, failAt)
         IN IF d.err THEN rest
            ELSE [rest EXCEPT !.segments = <<d.seg>> \o @]

\* the FetchSegment loop of replicaRestoreState; the failAt-th fetch of the
\* restore fails with an I/O error
RECURSIVE FetchSegments(_, _, _, _)
FetchSegments(r, descs, i, failAt) ==
    IF descs = <<>> THEN [err |-> FALSE, segments |-> <<>>]
    ELSE LET d == FetchSegment(r, Head(descs), i = failAt)
             rest == FetchSegments(r, Tail(descs), i + 1, failAt)
         IN IF d.err \/ rest.err THEN [err |-> TRUE, segments |-> <<>>]
            ELSE [rest EXCEPT !.segments = <<d.seg>> \o @]

NoReplicaState == [err |-> "nil", found |-> FALSE, source |-> 0,
                   contacted |-> {}, snapshot |-> NoSnap,
                   segments |-> <<>>]

\* mutation: a LatestState failure ends the restore with the replica's error
RECURSIVE replicaRestoreStateFailsOnLatestState(_, _, _)
replicaRestoreStateFailsOnLatestState(r, latestErr, failAt) ==
    IF r > NumReplicas THEN NoReplicaState
    ELSE LET state == replicas[r].state
             snap == FetchSnapshot(r, state.Snapshot, failAt = 1)
             segs == FetchSegments(r, state.Segments, 2, failAt)
             rest == replicaRestoreStateFailsOnLatestState(r + 1, latestErr,
                                                           failAt)
         IN IF r \in latestErr
            THEN [NoReplicaState EXCEPT !.err = "latest state",
                                        !.source = r, !.contacted = {r}]
            ELSE IF state.Snapshot = NoSnapshot
            THEN [rest EXCEPT !.contacted = @ \cup {r}]
            ELSE IF snap.err
            THEN [NoReplicaState EXCEPT !.err = "fetch snapshot",
                                        !.source = r, !.contacted = {r}]
            ELSE IF segs.err
            THEN [NoReplicaState EXCEPT !.err = "fetch segment",
                                        !.source = r, !.contacted = {r}]
            ELSE [NoReplicaState EXCEPT !.found = TRUE, !.source = r,
                                        !.contacted = {r},
                                        !.snapshot = snap.snap,
                                        !.segments = segs.segments]

\* replicaRestoreState over replicas r..NumReplicas; latestErr are the
\* replicas whose LatestState fails
RECURSIVE replicaRestoreState(_, _, _)
replicaRestoreState(r, latestErr, failAt) ==
    IF r > NumReplicas THEN NoReplicaState
    ELSE LET state == replicas[r].state
             snap == FetchSnapshot(r, state.Snapshot, failAt = 1)
             segs == FetchSegments(r, state.Segments, 2, failAt)
             rest == replicaRestoreState(r + 1, latestErr, failAt)
         IN IF r \in latestErr \/ state.Snapshot = NoSnapshot
            THEN [rest EXCEPT !.contacted = @ \cup {r}]
            ELSE IF snap.err
            THEN [NoReplicaState EXCEPT !.err = "fetch snapshot",
                                        !.source = r, !.contacted = {r}]
            ELSE IF segs.err
            THEN [NoReplicaState EXCEPT !.err = "fetch segment",
                                        !.source = r, !.contacted = {r}]
            ELSE [NoReplicaState EXCEPT !.found = TRUE, !.source = r,
                                        !.contacted = {r},
                                        !.snapshot = snap.snap,
                                        !.segments = segs.segments]

\* restoreToTarget: the image is built in a temporary file and renamed onto
\* the target; on an I/O error the target is left alone
restoreToTarget(res, snapshot, segments, ioFail) ==
    IF ioFail THEN [res EXCEPT !.err = "restore to target"]
    ELSE [res EXCEPT !.err = "nil",
                     !.target = RestoredImage(snapshot, segments),
                     !.applied = [snapshot |-> snapshot.Header.TxID,
                                  segments |-> [i \in DOMAIN segments |->
                                                  segments[i].Header.TxID]]]

RestoreOutcome(t) ==
    [err |-> "nil", target |-> t, localFound |-> FALSE, contacted |-> {},
     source |-> 0, applied |-> NoApplied]

\* os.Stat(target): the file exists and is not empty
TargetPresent(t) == Len(t) > 0

\* mutation: the replicas are consulted whatever the shadow log yields
ensureRestoredAlwaysReplicas(order, latestErr, failAt, ioFail) ==
    LET local == localRestoreState(order)
        rep == replicaRestoreState(1, latestErr, failAt)
        res == [RestoreOutcome(target) EXCEPT
                    !.localFound = local.found,
                    !.contacted = rep.contacted,
                    !.source = rep.source]
    IN IF TargetPresent(target) THEN RestoreOutcome(target)
       ELSE IF local.err
       THEN [RestoreOutcome(target) EXCEPT !.err = "load segments"]
       ELSE IF rep.err # "nil" THEN [res EXCEPT !.err = rep.err]
       ELSE IF ~local.found /\ ~rep.found
       THEN [res EXCEPT !.err = "no snapshots available"]
       ELSE IF local.found
       THEN restoreToTarget(res, local.snapshot, local.segments, ioFail)
       ELSE restoreToTarget(res, rep.snapshot, rep.segments, ioFail)

\* Controller.ensureRestored
ensureRestored(order, latestErr, failAt, ioFail) ==
    LET local == localRestoreState(order)
        rep == IF local.found THEN NoReplicaState
               ELSE replicaRestoreState(1, latestErr, failAt)
        res == [RestoreOutcome(target) EXCEPT
                    !.localFound = local.found,
                    !.contacted = rep.contacted,
                    !.source = rep.source]
    IN IF TargetPresent(target) THEN RestoreOutcome(target)
       ELSE IF local.err
       THEN [RestoreOutcome(target) EXCEPT !.err = "load segments"]
       ELSE IF rep.err # "nil" THEN [res EXCEPT !.err = rep.err]
       ELSE IF ~local.found /\ ~rep.found
       THEN [res EXCEPT !.err = "no snapshots available"]
       ELSE IF local.found
       THEN restoreToTarget(res, local.snapshot, local.segments, ioFail)
       ELSE restoreToTarget(res, rep.snapshot, rep.segments, ioFail)

\* RestoreStandalone
restoreStandalone(latestErr, failAt, ioFail) ==
    LET rep == replicaRestoreState(1, latestErr, failAt)
        res == [RestoreOutcome(target) EXCEPT
                    !.contacted = rep.contacted,
                    !.source = rep.source]
    IN IF rep.err # "nil" THEN [res EXCEPT !.err = rep.err]
       ELSE IF ~rep.found
       THEN [res EXCEPT !.err = "no replica snapshots available"]
       ELSE restoreToTarget(res, rep.snapshot, rep.segments, ioFail)

\* the outcome of a restore, with the failures the replicas it contacted
\* were subjected to
RestoreRecord(entry, res, env) ==
    [n |-> restoreRes.n + 1, entry |-> entry, err |-> res.err,
     localFound |-> res.localFound, contacted |-> res.contacted,
     source |-> res.source,
     latestErr |-> env.latestErr \cap res.contacted,
     failAt |-> IF res.contacted = {} THEN 0 ELSE env.failAt,
     applied |-> res.applied]

\* what the environment decides during one restore: the order in which the
\* generation directories are listed, the replicas whose LatestState fails,
\* which fetch (if any) fails, whether writing the image fails
NoFailure == [order |-> <<>>, latestErr |-> {}, failAt |-> 0, ioFail |-> FALSE]

MaxFetches ==
    1 + Max(0, CHOOSE n \in 0..MaxTxID :
                 /\ \E r \in Replicas : Len(replicas[r].state.Segments) = n
                 /\ \A r \in Replicas : Len(replicas[r].state.Segments) <= n)

RestoreEnvs(local) ==
    [order : IF local THEN Perms(ShadowGenerations) ELSE {<<>>},
     latestErr : SUBSET Replicas,
     failAt : 0..MaxFetches,
     ioFail : BOOLEAN]

\* ------------------------------------------------------------- retention
\* the backends a replica of each storage family can be
Backends(r) ==
    IF ReplicaKind(r) = "file" THEN {"file"} ELSE {"s3", "sftp", "nats"}

\* sort.Slice(snaps, created.After) over the decoded headers in directory
\* order: newest first, snapshots of one second in directory order
RECURSIVE NewestFirstDecoded(_)
NewestFirstDecoded(files) ==
    IF files = {} THEN <<>>
    ELSE LET m == CHOOSE f \in files : \A g \in files :
                    \/ g.body.Header.CreatedAt < f.body.Header.CreatedAt
                    \/ /\ g.body.Header.CreatedAt = f.body.Header.CreatedAt
                       /\ f.key[2] <= g.key[2]
         IN <<m>> \o NewestFirstDecoded(files \ {m})

\* sort.Slice(snaps, created.After) over the times parsed from the names:
\* newest first
RECURSIVE NewestFirst(_)
NewestFirst(files) ==
    IF files = {} THEN <<>>
    ELSE LET m == CHOOSE f \in files : \A g \in files : g.key[2] <= f.key[2]
         IN <<m>> \o NewestFirst(files \ {m})

\* the keep loop of pruneGeneration: a snapshot is kept if it was created
\* after the cutoff or nothing is kept yet
RECURSIVE KeepLoop(_, _, _)
KeepLoop(snaps, keep, cutoff) ==
    IF snaps = <<>> THEN keep
    ELSE IF Head(snaps).body.Header.CreatedAt > cutoff \/ keep = <<>>
    THEN KeepLoop(Tail(snaps), Append(keep, Head(snaps)), cutoff)
    ELSE KeepLoop(Tail(snaps), keep, cutoff)

\* pruneGeneration on one generation directory of a file replica; failed
\* are the names whose os.Remove fails (the error is dropped)
pruneGeneration(rep, generation, cutoff, failed) ==
    LET snaps == { f \in rep.snaps : /\ f.key[1] = generation
                                     /\ ~decodeSnapshotFile(f.body).err }
        keep == KeepLoop(NewestFirstDecoded(snaps), <<>>, cutoff)
        oldest == keep[Len(keep)]
        goneSnaps == { f \in snaps :
                        /\ f \notin { keep[i] : i \in DOMAIN keep }
                        /\ f.key \notin failed }
        goneSegs == { f \in rep.segs :
                        /\ f.key[1] = generation
                        /\ ~decodeSegmentFile(f.body).err
                        /\ decodeSegmentFile(f.body).seg.Header.TxID
                              <= oldest.body.Header.TxID
                        /\ f.key \notin failed }
    IN IF snaps = {} THEN rep
       ELSE [rep EXCEPT !.snaps = @ \ goneSnaps, !.segs = @ \ goneSegs]

\* FileReplica.Prune: every generation directory under the base path
RECURSIVE filePrune(_, _, _, _)
filePrune(rep, generations, cutoff, failed) ==
    IF generations = {} THEN rep
    ELSE LET g == CHOOSE x \in generations : TRUE
         IN filePrune(pruneGeneration(rep, g, cutoff, failed),
                      generations \ {g}, cutoff, failed)

\* the snapshot walk of S3CompatibleReplica.Prune over the objects in
\* listing order; a failing removeObject ends the walk with its error
RECURSIVE s3WalkSnapshots(_, _, _, _, _)
s3WalkSnapshots(objs, keepTxID, removed, cutoff, failed) ==
    IF objs = <<>>
    THEN [keepTxID |-> keepTxID, removed |-> removed, err |-> FALSE]
    ELSE LET o == Head(objs)
         IN IF o.key[2] > cutoff \/ keepTxID = 0
            THEN s3WalkSnapshots(Tail(objs), Max(keepTxID, o.key[3]), removed,
                                 cutoff, failed)
            ELSE IF o.key \in failed
            THEN [keepTxID |-> keepTxID, removed |-> removed, err |-> TRUE]
            ELSE s3WalkSnapshots(Tail(objs), keepTxID, removed \cup {o},
                                 cutoff, failed)

\* the segment walk of S3CompatibleReplica.Prune
RECURSIVE s3WalkSegments(_, _, _, _)
s3WalkSegments(objs, keepTxID, removed, failed) ==
    IF objs = <<>> THEN [removed |-> removed, err |-> FALSE]
    ELSE LET o == Head(objs)
         IN IF o.key[2] > keepTxID
            THEN s3WalkSegments(Tail(objs), keepTxID, removed, failed)
            ELSE IF o.key \in failed
            THEN [removed |-> removed, err |-> TRUE]
            ELSE s3WalkSegments(Tail(objs), keepTxID, removed \cup {o},
                                failed)

\* S3CompatibleReplica.Prune of one generation
s3Prune(rep, generation, retention, cutoff, failed) ==
    LET sw == s3WalkSnapshots(
                 SnapshotFilesInOrder({f \in rep.snaps : f.key[1] = generation}),
                 0, {}, cutoff, failed)
        gw == s3WalkSegments(
                 SegmentFilesInOrder({f \in rep.segs : f.key[1] = generation}),
                 sw.keepTxID, {}, failed)
        afterSnaps == [rep EXCEPT !.snaps = @ \ sw.removed]
    IN IF retention <= 0 THEN [rep |-> rep, err |-> FALSE]
       ELSE IF sw.err THEN [rep |-> afterSnaps, err |-> TRUE]
       ELSE IF sw.keepTxID = 0 THEN [rep |-> afterSnaps, err |-> FALSE]
       ELSE [rep |-> [afterSnaps EXCEPT !.segs = @ \ gw.removed],
             err |-> gw.err]

\* the keep loop of pruneSFTPGeneration / pruneNATSGeneration over the
\* snapshots newest first: the txID up to which segments are removed, and
\* the snapshots passed to Remove
RECURSIVE NameKeepLoop(_, _, _, _, _)
NameKeepLoop(snaps, idx, keepTxID, gone, cutoff) ==
    IF snaps = <<>> THEN [keepTxID |-> keepTxID, gone |-> gone]
    ELSE IF Head(snaps).key[2] > cutoff \/ idx = 0
    THEN NameKeepLoop(Tail(snaps), idx + 1, Max(keepTxID, Head(snaps).key[3]),
                      gone, cutoff)
    ELSE NameKeepLoop(Tail(snaps), idx + 1, keepTxID,
                      gone \cup {Head(snaps)}, cutoff)

\* pruneSFTPGeneration / pruneNATSGeneration: Remove errors are dropped
pruneByName(rep, generation, cutoff, failed) ==
    LET snaps == NewestFirst({f \in rep.snaps : f.key[1] = generation})
        loop == NameKeepLoop(snaps, 0, 0, {}, cutoff)
        keepTxID == IF loop.keepTxID = 0 THEN snaps[1].key[3]
                    ELSE loop.keepTxID
        goneSnaps == { f \in loop.gone : f.key \notin failed }
        goneSegs == { f \in rep.segs : /\ f.key[1] = generation
                                       /\ f.key[2] <= keepTxID
                                       /\ f.key \notin failed }
    IN IF snaps = <<>> THEN rep
       ELSE [rep EXCEPT !.snaps = @ \ goneSnaps, !.segs = @ \ goneSegs]

\* Replica.Prune of replica r at time t
Prune(r, generation, retention, t, failed) ==
    LET rep == replicas[r]
        cutoff == t - retention
    IN CASE backend[r] = "file" ->
              [rep |-> filePrune(rep,
                          { f.key[1] : f \in rep.snaps \cup rep.segs },
                          cutoff, failed),
               err |-> FALSE]
         [] backend[r] = "s3" -> s3Prune(rep, generation, retention, cutoff,
                                         failed)
         [] OTHER ->
              IF retention <= 0 THEN [rep |-> rep, err |-> FALSE]
              ELSE [rep |-> pruneByName(rep, generation, cutoff, failed),
                    err |-> FALSE]

\* the removals that may fail during one retention pass
RemoveFailures ==
    {{}} \cup { {f.key} : f \in UNION { replicas[r].snaps \cup replicas[r].segs :
                                          r \in Replicas } }

\* the retention goroutine leaves its select by the ticker or by a pending
\* trigger, and enforceRetention reads the current generation under the
\* state lock
BeginPass ==
    \E wake \in {"ticker", "trigger"} :
        /\ life.loop = "select"
        /\ wake = "trigger" => retentionCh = 1
        /\ retentionCh' = IF wake = "trigger" THEN 0 ELSE retentionCh
        /\ life' = [life EXCEPT !.loop = "pass", !.gen = currentGen]
        /\ UNCHANGED <<hostVars, cfgVars, currentGen, lastTxID, lastSnapshot,
                       lastReplication, replicaLag, genCount, now, storeVars,
                       pc, call, faults, restoreVars, hist, window, decoding,
                       pureVars, concVars>>

\* the rest of enforceRetention: Prune on every replica, errors logged;
\* the goroutine returns to its select
EnforceRetention ==
    \E failed \in RemoveFailures :
        /\ life.loop = "pass"
        /\ failed # {} => faults < MaxFaults
        /\ replicas' = [r \in Replicas |->
                Prune(r, life.gen, ConfiguredRetention, now, failed).rep]
        /\ faults' = IF failed = {} THEN faults ELSE faults + 1
        /\ life' = [life EXCEPT !.loop = "select"]
        /\ UNCHANGED <<hostVars, cfgVars, ctrlVars, now, shadowSegs,
                       shadowSnaps, pc, call, restoreVars, hist, window,
                       decoding, pureVars, concVars>>

\* the retention goroutine takes the closeCh case of its select and returns
LoopExit ==
    /\ life.loop = "select"
    /\ life.closeCh = "closed"
    /\ life' = [life EXCEPT !.loop = "exited"]
    /\ UNCHANGED <<hostVars, cfgVars, ctrlVars, now, storeVars, pc, call,
                   faults, restoreVars, hist, window, decoding, pureVars,
                   concVars>>

\* ------------------------------------------------------------------ Stop
\* Stop is called: close(closeCh), then it blocks in wg.Wait
Stop ==
    /\ life.stop = "none"
    /\ life' = [life EXCEPT !.closeCh = "closed", !.stop = "wait",
                            !.onStarted = (life.loop # "none")]
    /\ UNCHANGED <<hostVars, cfgVars, ctrlVars, now, storeVars, pc, call,
                   faults, restoreVars, hist, window, decoding, pureVars,
                   concVars>>

\* Stop going on to the replicas without waiting for the goroutine
StopWaitedWithoutJoin ==
    /\ life.stop = "wait"
    /\ life' = [life EXCEPT !.observer = FALSE, !.stop = "close"]
    /\ UNCHANGED <<hostVars, cfgVars, ctrlVars, now, storeVars, pc, call,
                   faults, restoreVars, hist, window, decoding, pureVars,
                   concVars>>

\* wg.Wait returns once no retention goroutine is running; Stop
\* unregisters the observer and turns to the replicas
StopWaited ==
    /\ life.stop = "wait"
    /\ life.loop \in {"none", "exited"}
    /\ life' = [life EXCEPT !.observer = FALSE, !.stop = "close"]
    /\ UNCHANGED <<hostVars, cfgVars, ctrlVars, now, storeVars, pc, call,
                   faults, restoreVars, hist, window, decoding, pureVars,
                   concVars>>

\* a Close loop that ends at the first failing Close
CloseReplicaUntilFailure ==
    \E ok \in BOOLEAN :
        /\ life.stop = "close"
        /\ life.idx < NumReplicas
        /\ LET r == life.idx + 1
           IN life' = [life EXCEPT
                         !.idx = IF ok THEN r ELSE NumReplicas,
                         !.closes[r] = @ + 1,
                         !.errs = IF ok THEN @ ELSE Append(@, r)]
        /\ UNCHANGED <<hostVars, cfgVars, ctrlVars, now, storeVars, pc, call,
                       faults, restoreVars, hist, window, decoding, pureVars,
                       concVars>>

\* one iteration of the Close loop of Stop
CloseReplica ==
    \E ok \in BOOLEAN :
        /\ life.stop = "close"
        /\ life.idx < NumReplicas
        /\ LET r == life.idx + 1
           IN life' = [life EXCEPT
                         !.idx = r,
                         !.closes[r] = @ + 1,
                         !.errs = IF ok THEN @ ELSE Append(@, r)]
        /\ UNCHANGED <<hostVars, cfgVars, ctrlVars, now, storeVars, pc, call,
                       faults, restoreVars, hist, window, decoding, pureVars,
                       concVars>>

\* Stop returns: an error if any Close failed, nil otherwise
StopReturn ==
    /\ life.stop = "close"
    /\ life.idx = NumReplicas
    /\ life' = [life EXCEPT !.stop = "done",
                            !.ret = IF Len(life.errs) > 0 THEN "err" ELSE "nil"]
    /\ UNCHANGED <<hostVars, cfgVars, ctrlVars, now, storeVars, pc, call,
                   faults, restoreVars, hist, window, decoding, pureVars,
                   concVars>>

\* -------------------------------------------------------- DataLossWindow
\* the loop of DataLossWindow over the entries of replicaLag
RECURSIVE MaxLag(_, _, _, _)
MaxLag(entries, lag, t, maxLag) ==
    IF entries = {} THEN maxLag
    ELSE LET r == CHOOSE x \in entries : TRUE
         IN MaxLag(entries \ {r}, lag, t,
                   IF lag[r] = 0 THEN maxLag ELSE Max(t - lag[r], maxLag))

\* DataLossWindow counting a replica without an entry as lagging since
\* time zero
DataLossWindowCountsMissing(t, lastRep, lag) ==
    IF lastRep = 0 THEN 0
    ELSE MaxLag(Replicas, [r \in Replicas |-> IF lag[r] = 0 THEN 1 ELSE lag[r]],
                t, 0)

\* Controller.DataLossWindow at time t; replicaLag holds an entry for a
\* replica once an upload to it has succeeded
DataLossWindow(t, lastRep, lag) ==
    LET entries == { r \in Replicas : lag[r] # 0 }
    IN IF entries = {}
       THEN IF lastRep = 0 THEN 0 ELSE t - lastRep
       ELSE MaxLag(entries, lag, t, 0)

\* a caller asks for the data-loss window
CallDataLossWindow ==
    /\ window.n < MaxCalls
    /\ window' = [n |-> window.n + 1,
                  result |-> DataLossWindow(now, lastReplication, replicaLag),
                  lastRep |-> lastReplication,
                  lag |-> replicaLag]
    /\ UNCHANGED <<hostVars, cfgVars, ctrlVars, now, storeVars, pc, call,
                   faults, restoreVars, hist, life, decoding, pureVars,
                   concVars>>

\* ----------------------------------------------------------------- clock
Tick ==
    /\ pc = "idle"
    /\ now < MaxTicks + hostTx + 1
    /\ now' = now + 1
    /\ UNCHANGED <<hostVars, cfgVars, ctrlVars, storeVars, pc, call, faults,
                   restoreVars, hist, callerVars>>

\* ------------------------------------------------------------ OnPageFlush
\* make(chan struct{}, 1)
RetentionChCap == 1

\* a plain send on retentionCh: the sender waits for room in the buffer
triggerRetentionBlocking ==
    /\ retentionCh < RetentionChCap
    /\ retentionCh' = retentionCh + 1

\* Controller.triggerRetention: a send on retentionCh under a select with
\* a default case
triggerRetention ==
    retentionCh' = IF retentionCh < RetentionChCap THEN retentionCh + 1
                   ELSE retentionCh

\* aggregateErrors + return of persistSegment, after triggerRetention
Return(errs, snapshotted) ==
    /\ pc' = "idle"
    /\ triggerRetention
    /\ call' = [call EXCEPT !.errs = errs,
                            !.ret = IF errs = <<>> THEN "nil" ELSE "err"]
    /\ hist' = [hist EXCEPT
                  !.allOK = @ /\ errs = <<>>,
                  !.firstSnap = @ \/ (call.n = 1 /\ snapshotted),
                  !.fullSnaps = IF snapshotted
                                THEN @ \cup {call.snap.Header.CreatedAt}
                                ELSE @,
                  !.retry = (call.snapErrs # <<>>),
                  !.dropped = @ \/ (retentionCh = RetentionChCap
                                     /\ life.loop \in {"pass", "exited"})]

\* compressBuffer returns "unknown compression codec" for a codec that is
\* neither none nor zstd
compressFails(c) == c \notin Codecs

\* a persistSegment that leaves lastTxID as it was
OnPageFlushKeepsLastTxID ==
    \E txID \in (hostTx + 1)..MaxTxID :
    \E parentTxID \in {hostTx, txID - 1}, frames \in HostFrames(txID) :
        /\ pc = "idle"
        /\ life.observer
        /\ LET t == now + 1
               segment == buildSegment(txID, parentTxID, frames, t)
               rotate == NeedsNewGeneration(currentGen, lastTxID, parentTxID)
               generation == IF rotate THEN genCount + 1 ELSE currentGen
               entered == [NoCall EXCEPT !.n = call.n + 1,
                                         !.TxID = txID,
                                         !.ParentTxID = parentTxID,
                                         !.prevTxID = call.TxID,
                                         !.prevGen = call.generation,
                                         !.prevStaged = call.staged,
                                         !.minted = genCount]
           IN /\ dbFile' = HostCommit(dbFile, frames)
              /\ hostTx' = txID
              /\ now' = t
              /\ IF compressFails(codec)
                 THEN /\ call' = [entered EXCEPT
                                    !.errs = <<[src |-> 0,
                                                msg |-> "compress segment payload"]>>,
                                    !.ret = "err"]
                      /\ pc' = "idle"
                      /\ hist' = [hist EXCEPT !.allOK = FALSE]
                      /\ UNCHANGED <<genCount, currentGen, lastTxID,
                                     lastReplication>>
                 ELSE /\ genCount' = IF rotate THEN genCount + 1 ELSE genCount
                      /\ currentGen' = generation
                      /\ lastTxID' = lastTxID
                      /\ lastReplication' = t
                      /\ call' = [entered EXCEPT !.segment = segment,
                                                !.generation = generation]
                      /\ pc' = "shadow"
                      /\ hist' = hist
        /\ UNCHANGED <<cfgVars, lastSnapshot, replicaLag, retentionCh,
                       storeVars, faults, restoreVars, callerVars>>

\* the host commits transaction txID and calls OnPageFlush: buildSegment
\* (whose error ends the call), then the generation decision of
\* persistSegment under the state lock
OnPageFlush ==
    \E txID \in (hostTx + 1)..MaxTxID :
    \E parentTxID \in {hostTx, txID - 1}, frames \in HostFrames(txID) :
        /\ pc = "idle"
        /\ life.observer
        /\ LET t == now + 1
               segment == buildSegment(txID, parentTxID, frames, t)
               rotate == NeedsNewGeneration(currentGen, lastTxID, parentTxID)
               generation == IF rotate THEN genCount + 1 ELSE currentGen
               entered == [NoCall EXCEPT !.n = call.n + 1,
                                         !.TxID = txID,
                                         !.ParentTxID = parentTxID,
                                         !.prevTxID = call.TxID,
                                         !.prevGen = call.generation,
                                         !.prevStaged = call.staged,
                                         !.minted = genCount]
           IN /\ dbFile' = HostCommit(dbFile, frames)
              /\ hostTx' = txID
              /\ now' = t
              /\ IF compressFails(codec)
                 THEN /\ call' = [entered EXCEPT
                                    !.errs = <<[src |-> 0,
                                                msg |-> "compress segment payload"]>>,
                                    !.ret = "err"]
                      /\ pc' = "idle"
                      /\ hist' = [hist EXCEPT !.allOK = FALSE]
                      /\ UNCHANGED <<genCount, currentGen, lastTxID,
                                     lastReplication>>
                 ELSE /\ genCount' = IF rotate THEN genCount + 1 ELSE genCount
                      /\ currentGen' = generation
                      /\ lastTxID' = txID
                      /\ lastReplication' = t
                      /\ call' = [entered EXCEPT !.segment = segment,
                                                !.generation = generation]
                      /\ pc' = "shadow"
                      /\ hist' = hist
        /\ UNCHANGED <<cfgVars, lastSnapshot, replicaLag, retentionCh,
                       storeVars, faults, restoreVars, callerVars>>

\* persistSegment going on to the replicas whatever writeSegmentToShadow
\* returned
WriteSegmentToShadowGoesOn ==
    \E outcome \in {"ok", "fail", "partial"} :
        /\ pc = "shadow"
        /\ outcome # "ok" => faults < MaxFaults
        /\ LET key == <<call.generation, call.TxID>>
               file == marshalSegment(call.segment)
           IN shadowSegs' =
                CASE outcome = "ok" -> PutFile(shadowSegs, key, file)
                  [] outcome = "partial" ->
                        PutFile(shadowSegs, key, Truncated(file))
                  [] OTHER -> shadowSegs
        /\ pc' = "put"
        /\ call' = [call EXCEPT !.staged = (outcome = "ok"), !.idx = 1]
        /\ faults' = IF outcome = "ok" THEN faults ELSE faults + 1
        /\ hist' = IF outcome = "ok" THEN hist
                   ELSE [hist EXCEPT !.allOK = FALSE]
        /\ UNCHANGED <<hostVars, cfgVars, ctrlVars, now, shadowSnaps, replicas,
                       restoreVars, callerVars>>

\* Controller.writeSegmentToShadow and the error return of persistSegment
WriteSegmentToShadow ==
    \E outcome \in {"ok", "fail", "partial"} :
        /\ pc = "shadow"
        /\ outcome # "ok" => faults < MaxFaults
        /\ LET key == <<call.generation, call.TxID>>
               file == marshalSegment(call.segment)
           IN shadowSegs' =
                CASE outcome = "ok" -> PutFile(shadowSegs, key, file)
                  [] outcome = "partial" ->
                        PutFile(shadowSegs, key, Truncated(file))
                  [] OTHER -> shadowSegs
        /\ IF outcome = "ok"
           THEN /\ pc' = "put"
                /\ call' = [call EXCEPT !.staged = TRUE, !.idx = 1]
                /\ faults' = faults
                /\ hist' = hist
           ELSE /\ pc' = "idle"
                /\ call' = [call EXCEPT
                              !.errs = <<[src |-> 0, msg |-> "write segment file"]>>,
                              !.ret = "err"]
                /\ faults' = faults + 1
                /\ hist' = [hist EXCEPT !.allOK = FALSE]
        /\ UNCHANGED <<hostVars, cfgVars, ctrlVars, now, shadowSnaps, replicas,
                       restoreVars, callerVars>>

\* mutation: the fan-out loop stops at the first failing replica
NextReplicaShortCircuit(i, failed) ==
    IF failed THEN NumReplicas + 1 ELSE i + 1

\* the replica the fan-out loop visits after replica i
NextReplica(i, failed) == i + 1

\* one iteration of the PutSegment loop of persistSegment
PutSegment ==
    \E outcome \in {"ok", "fail_put", "fail_state"} :
        /\ pc = "put"
        /\ call.idx <= NumReplicas
        /\ outcome # "ok" => faults < MaxFaults
        /\ LET r == call.idx
               generation == call.generation
               seg == call.segment
               key == <<generation, seg.Header.TxID>>
               obj == StoredObject(r, marshalSegment(seg))
               desc == SegmentDescriptor(generation, seg)
               old == replicas[r]
               state == IF ReplicaKind(r) = "file"
                        THEN appendSegment(old.state, generation, desc, now)
                        ELSE s3UpdateSegment(old.state, generation, desc, now)
           IN /\ replicas' = [replicas EXCEPT ![r] =
                    CASE outcome = "ok" ->
                            [old EXCEPT !.segs = PutFile(old.segs, key, obj),
                                        !.state = state]
                      [] outcome = "fail_state" ->
                            [old EXCEPT !.segs = PutFile(old.segs, key, obj)]
                      [] OTHER -> old]
              /\ replicaLag' = IF outcome = "ok"
                               THEN [replicaLag EXCEPT ![r] = now]
                               ELSE replicaLag
              /\ call' = [call EXCEPT
                    !.idx = NextReplica(r, outcome # "ok"),
                    !.attempted = @ \cup {r},
                    !.failed = IF outcome = "ok" THEN @ ELSE @ \cup {r},
                    !.errs = IF outcome = "ok" THEN @
                             ELSE Append(@, [src |-> r, msg |-> "put segment"])]
              /\ faults' = IF outcome = "ok" THEN faults ELSE faults + 1
        /\ UNCHANGED <<hostVars, cfgVars, currentGen, lastTxID, lastSnapshot,
                       lastReplication, retentionCh, genCount, now, shadowSegs,
                       shadowSnaps, pc, restoreVars, hist, callerVars>>

\* a decision that ignores the time of the last snapshot
SnapshotDueAlways(interval, last, t) ==
    interval > 0

\* maybeSnapshot's decision
SnapshotDue(interval, last, t) ==
    interval > 0 /\ (last = 0 \/ t - last >= interval)

\* the transaction id a read-only View reports
ViewTxID == hostTx

\* maybeSnapshot after the PutSegment loop; createSnapshot up to and
\* including writeSnapshotToShadow
MaybeSnapshot ==
    \E outcome \in {"ok", "fail", "partial"} :
        /\ pc = "put"
        /\ call.idx > NumReplicas
        /\ IF ~SnapshotDue(snapshotInterval, lastSnapshot, now)
           THEN /\ outcome = "ok"
                /\ Return(call.errs, FALSE)
                /\ UNCHANGED <<shadowSnaps, faults>>
           ELSE LET raw == dbFile
                    header == [TxID |-> ViewTxID,
                               PageCount |-> Len(raw) \div PageSize,
                               PageSize |-> PageSize,
                               Compression |-> codec,
                               CreatedAt |-> now]
                    snap == [Header |-> header,
                             Data |-> compressBuffer(codec, raw)]
                    key == <<call.generation, now, ViewTxID>>
                    file == marshalSnapshot(snap)
                IN /\ outcome # "ok" => faults < MaxFaults
                   /\ shadowSnaps' =
                        CASE outcome = "ok" -> PutFile(shadowSnaps, key, file)
                          [] outcome = "partial" ->
                                PutFile(shadowSnaps, key, Truncated(file))
                          [] OTHER -> shadowSnaps
                   /\ IF outcome = "ok"
                      THEN /\ pc' = "putsnap"
                           /\ call' = [call EXCEPT !.snap = snap,
                                                   !.snapTaken = TRUE,
                                                   !.idx = 1]
                           /\ faults' = faults
                           /\ UNCHANGED <<retentionCh, hist>>
                      ELSE /\ Return(Append(call.errs,
                                [src |-> 0, msg |-> "create snapshot"]), FALSE)
                           /\ faults' = faults + 1
        /\ UNCHANGED <<hostVars, cfgVars, currentGen, lastTxID, lastSnapshot,
                       lastReplication, replicaLag, genCount, now, shadowSegs,
                       replicas, restoreVars, callerVars>>

\* one iteration of the PutSnapshot loop of createSnapshot
PutSnapshot ==
    \E outcome \in {"ok", "fail_put", "fail_state"} :
        /\ pc = "putsnap"
        /\ call.idx <= NumReplicas
        /\ outcome # "ok" => faults < MaxFaults
        /\ LET r == call.idx
               generation == call.generation
               snap == call.snap
               key == <<generation, snap.Header.CreatedAt, snap.Header.TxID>>
               obj == StoredObject(r, marshalSnapshot(snap))
               desc == SnapshotDescriptor(generation, snap)
               old == replicas[r]
               state == IF ReplicaKind(r) = "file"
                        THEN fileUpdateState(generation, desc, now)
                        ELSE s3UpdateSnapshot(old.state, generation, desc, now)
           IN /\ replicas' = [replicas EXCEPT ![r] =
                    CASE outcome = "ok" ->
                            [old EXCEPT !.snaps = PutFile(old.snaps, key, obj),
                                        !.state = state]
                      [] outcome = "fail_state" ->
                            [old EXCEPT !.snaps = PutFile(old.snaps, key, obj)]
                      [] OTHER -> old]
              /\ replicaLag' = IF outcome = "ok"
                               THEN [replicaLag EXCEPT ![r] = now]
                               ELSE replicaLag
              /\ call' = [call EXCEPT
                    !.idx = r + 1,
                    !.snapErrs = IF outcome = "ok" THEN @
                                 ELSE Append(@, [src |-> r, msg |-> "put snapshot"])]
              /\ faults' = IF outcome = "ok" THEN faults ELSE faults + 1
        /\ UNCHANGED <<hostVars, cfgVars, currentGen, lastTxID, lastSnapshot,
                       lastReplication, retentionCh, genCount, now, shadowSegs,
                       shadowSnaps, pc, restoreVars, hist, callerVars>>

\* a maybeSnapshot that records the snapshot time whatever the replicas
\* returned
FinishSnapshotAlwaysAdvances ==
    /\ pc = "putsnap"
    /\ call.idx > NumReplicas
    /\ IF call.snapErrs # <<>>
       THEN Return(Append(call.errs, [src |-> 0, msg |-> "create snapshot"]),
                   FALSE)
       ELSE Return(call.errs, TRUE)
    /\ lastSnapshot' = call.snap.Header.CreatedAt
    /\ UNCHANGED <<hostVars, cfgVars, currentGen, lastTxID, lastReplication,
                   replicaLag, genCount, now, storeVars, faults, restoreVars,
                   callerVars>>

\* the end of createSnapshot and maybeSnapshot, and persistSegment's return
FinishSnapshot ==
    /\ pc = "putsnap"
    /\ call.idx > NumReplicas
    /\ IF call.snapErrs # <<>>
       THEN /\ Return(Append(call.errs, [src |-> 0, msg |-> "create snapshot"]),
                      FALSE)
            /\ UNCHANGED lastSnapshot
       ELSE /\ Return(call.errs, TRUE)
            /\ lastSnapshot' = call.snap.Header.CreatedAt
    /\ UNCHANGED <<hostVars, cfgVars, currentGen, lastTxID, lastReplication,
                   replicaLag, genCount, now, storeVars, faults, restoreVars,
                   callerVars>>

\* Controller.Start: configuration defaults, then the optional auto-restore
Start ==
    \E enabled \in BOOLEAN :
    \E env \in IF enabled /\ ~TargetPresent(target)
               THEN RestoreEnvs(TRUE) ELSE {NoFailure} :
        /\ pc = "idle"
        /\ ~started
        /\ enabled => restoreRes.n < MaxRestores
        /\ snapshotInterval' = IF snapshotInterval <= 0
                               THEN DefaultSnapshotInterval
                               ELSE snapshotInterval
        /\ IF enabled
           THEN LET res == ensureRestored(env.order, env.latestErr,
                                          env.failAt, env.ioFail)
                IN /\ target' = res.target
                   /\ restoreRes' = RestoreRecord("auto", res, env)
                   /\ UNCHANGED <<supplied, tmp>>
                   /\ started' = (res.err = "nil")
           ELSE /\ started' = TRUE
                /\ UNCHANGED restoreVars
        /\ life' = [life EXCEPT
                      !.configured = IF @ = -1 THEN snapshotInterval ELSE @,
                      !.loop = IF started' THEN "select" ELSE @]
        /\ UNCHANGED <<hostVars, codec, backend, ctrlVars, now, storeVars, pc,
                       call, faults, hist, window, decoding, pureVars,
                       concVars>>

\* the standalone restore command
RestoreStandalone ==
    \E env \in RestoreEnvs(FALSE) :
        /\ pc = "idle"
        /\ restoreRes.n < MaxRestores
        /\ LET res == restoreStandalone(env.latestErr, env.failAt, env.ioFail)
           IN /\ target' = res.target
              /\ restoreRes' = RestoreRecord("standalone", res, env)
              /\ UNCHANGED <<supplied, tmp>>
        /\ UNCHANGED <<hostVars, cfgVars, ctrlVars, now, storeVars, pc, call,
                       faults, hist, callerVars>>

\* the machine is replaced: the shadow directory is lost
WipeShadow ==
    /\ pc = "idle"
    /\ shadowSegs \cup shadowSnaps # {}
    /\ shadowSegs' = {}
    /\ shadowSnaps' = {}
    /\ hist' = [hist EXCEPT !.wiped = TRUE]
    /\ UNCHANGED <<hostVars, cfgVars, ctrlVars, now, replicas, pc, call,
                   faults, restoreVars, callerVars>>

Next ==
    \/ Tick
    \/ OnPageFlush
    \/ WriteSegmentToShadow
    \/ PutSegment
    \/ MaybeSnapshot
    \/ PutSnapshot
    \/ FinishSnapshot
    \/ Start

Spec == Init /\ [][Next]_vars

\* the restore specification: the controller's commit path with at most
\* MaxFaults - 1 injected failures, a target path that is absent or holds
\* a database, a shadow directory that may be lost, and both restore
\* entry points; MaxRestores restores end a behaviour
InitRestore ==
    /\ dbFile = Zeros(NumPages * PageSize)
    /\ hostTx = 0
    /\ codec = "zstd"
    /\ backend = [r \in Replicas |-> ReplicaKind(r)]
    /\ snapshotInterval \in {0, ConfiguredInterval}
    /\ started = FALSE
    /\ currentGen = 0
    /\ lastTxID = 0
    /\ lastSnapshot = 0
    /\ lastReplication = 0
    /\ replicaLag = [r \in Replicas |-> 0]
    /\ retentionCh = 0
    /\ genCount = 0
    /\ now = 1
    /\ shadowSegs = {}
    /\ shadowSnaps = {}
    /\ replicas = [r \in Replicas |->
                     [segs |-> {}, snaps |-> {}, state |-> EmptyState]]
    /\ pc = "idle"
    /\ call = NoCall
    /\ faults = MaxFaults - 1
    /\ target \in {<<>>, Zeros(NumPages * PageSize)}
    /\ restoreRes = NoRestore
    /\ supplied = NoSupplied
    /\ tmp = NoTemp
    /\ hist = NoHistory
    /\ window = NoWindow
    /\ life = NoLife
    /\ decoding = NoDecoding
    /\ validating = NoValidating
    /\ normalizing = NoNormalizing
    /\ parked = {}
    /\ puts = NoPuts

\* a behaviour is observed up to its last restore
Observing == restoreRes.n < MaxRestores

NextRestore ==
    \/ (Observing /\ Tick)
    \/ (Observing /\ OnPageFlush)
    \/ (Observing /\ WriteSegmentToShadow)
    \/ (Observing /\ PutSegment)
    \/ (Observing /\ MaybeSnapshot)
    \/ (Observing /\ PutSnapshot)
    \/ (Observing /\ FinishSnapshot)
    \/ (Observing /\ Start)
    \/ (Observing /\ WipeShadow)
    \/ RestoreStandalone

SpecRestore == InitRestore /\ [][NextRestore]_vars

\* the restore-image specification: restoreToTarget applied to a snapshot
\* and to segments supplied in any order
\* a frame list as <<page id, overflow>> pairs: one frame anywhere in the
\* file, or the first and the last page
FrameShapes ==
    { << <<p[1], p[2]>> >> :
        p \in { q \in (0..(NumPages - 1)) \X (0..1) : q[1] + q[2] < NumPages } }
    \cup { << <<0, 0>>, <<NumPages - 1, 0>> >> }

FramesOfShape(shape, txID) ==
    [k \in 1..Len(shape) |-> PageFrame(shape[k][1], shape[k][2], txID)]

\* a snapshot of an image of pages pages, and one decoded segment file per
\* transaction of order, in that order
MakeSupplied(pages, order, shapes) ==
    LET image == [i \in 1..(pages * PageSize) |-> 90 + i]
        header == [TxID |-> 0, PageCount |-> pages, PageSize |-> PageSize,
                   Compression |-> codec, CreatedAt |-> 1]
    IN [snapshot |-> [Header |-> header,
                      Data |-> compressBuffer(codec, image)],
        segments |->
            [k \in 1..Len(order) |->
                decodeSegmentFile(marshalSegment(
                    buildSegment(order[k], order[k] - 1,
                                 FramesOfShape(shapes[order[k]], order[k]),
                                 1))).seg],
        image |-> image]

InitApply ==
    /\ dbFile = Zeros(NumPages * PageSize)
    /\ hostTx = 0
    /\ codec \in Codecs
    /\ backend = [r \in Replicas |-> ReplicaKind(r)]
    /\ snapshotInterval = 0
    /\ started = FALSE
    /\ currentGen = 0
    /\ lastTxID = 0
    /\ lastSnapshot = 0
    /\ lastReplication = 0
    /\ replicaLag = [r \in Replicas |-> 0]
    /\ retentionCh = 0
    /\ genCount = 0
    /\ now = 1
    /\ shadowSegs = {}
    /\ shadowSnaps = {}
    /\ replicas = [r \in Replicas |->
                     [segs |-> {}, snaps |-> {}, state |-> EmptyState]]
    /\ pc = "idle"
    /\ call = NoCall
    /\ faults = 0
    /\ target = <<>>
    /\ restoreRes = NoRestore
    /\ \E S \in SUBSET (1..MaxTxID) :
       \E order \in Perms(S), shapes \in [S -> FrameShapes],
          pages \in {1, NumPages} :
            supplied = MakeSupplied(pages, order, shapes)
    /\ tmp = NoTemp
    /\ hist = NoHistory
    /\ window = NoWindow
    /\ life = NoLife
    /\ decoding = NoDecoding
    /\ validating = NoValidating
    /\ normalizing = NoNormalizing
    /\ parked = {}
    /\ puts = NoPuts

\* restoreToTarget on the supplied snapshot and segments
RestoreToTarget ==
    \E ioFail \in BOOLEAN :
        /\ restoreRes.n = 0
        /\ LET res == restoreToTarget(RestoreOutcome(target),
                                      supplied.snapshot, supplied.segments,
                                      ioFail)
           IN /\ target' = res.target
              /\ restoreRes' = [NoRestore EXCEPT !.n = 1, !.entry = "apply",
                                                 !.err = res.err,
                                                 !.applied = res.applied]
        /\ UNCHANGED <<hostVars, cfgVars, ctrlVars, now, storeVars, pc, call,
                       faults, supplied, tmp, hist, callerVars>>

NextApply == RestoreToTarget

SpecApply == InitApply /\ [][NextApply]_vars

\* the materialization specification: restoreToTarget statement by
\* statement, every statement able to fail, and the process able to die
\* between any two of them
InitMaterialize ==
    /\ dbFile = Zeros(NumPages * PageSize)
    /\ hostTx = 0
    /\ codec \in Codecs
    /\ backend = [r \in Replicas |-> ReplicaKind(r)]
    /\ snapshotInterval = 0
    /\ started = FALSE
    /\ currentGen = 0
    /\ lastTxID = 0
    /\ lastSnapshot = 0
    /\ lastReplication = 0
    /\ replicaLag = [r \in Replicas |-> 0]
    /\ retentionCh = 0
    /\ genCount = 0
    /\ now = 1
    /\ shadowSegs = {}
    /\ shadowSnaps = {}
    /\ replicas = [r \in Replicas |->
                     [segs |-> {}, snaps |-> {}, state |-> EmptyState]]
    /\ pc = "idle"
    /\ call = NoCall
    /\ faults = 0
    /\ target \in {<<>>, Zeros(NumPages * PageSize)}
    /\ restoreRes = NoRestore
    /\ \E S \in SUBSET (1..MaxTxID) :
       \E order \in Perms(S), shapes \in [S -> FrameShapes] :
            supplied = MakeSupplied(NumPages, order, shapes)
    /\ tmp = NoTemp
    /\ hist = NoHistory
    /\ window = NoWindow
    /\ life = NoLife
    /\ decoding = NoDecoding
    /\ validating = NoValidating
    /\ normalizing = NoNormalizing
    /\ parked = {}
    /\ puts = NoPuts

Materializing ==
    tmp.step \in {"create", "write", "sync", "close", "apply", "chmod",
                  "rename"}

\* restoreToTarget returns err
ReturnFrom(err) ==
    restoreRes' = [NoRestore EXCEPT !.n = 1, !.entry = "materialize",
                                    !.err = err]

\* mutation: an error path returns without removing the temporary file
AbandonKeepsTemp(err) ==
    /\ tmp' = [tmp EXCEPT !.step = "failed"]
    /\ ReturnFrom(err)
    /\ UNCHANGED target

\* an error path after CreateTemp: os.Remove(tmpName), return err
Abandon(err) ==
    /\ tmp' = [tmp EXCEPT !.step = "failed", !.exists = FALSE,
                          !.bytes = <<>>]
    /\ ReturnFrom(err)
    /\ UNCHANGED target

\* os.MkdirAll(filepath.Dir(targetPath)) and decompressBuffer
MkdirAll ==
    \E fail \in BOOLEAN :
        /\ tmp.step = "none"
        /\ restoreRes.n = 0
        /\ IF fail
           THEN /\ tmp' = [tmp EXCEPT !.step = "failed", !.before = target]
                /\ ReturnFrom("mkdir")
           ELSE /\ tmp' = [tmp EXCEPT !.step = "create", !.before = target]
                /\ UNCHANGED restoreRes
        /\ UNCHANGED <<hostVars, cfgVars, ctrlVars, now, storeVars, pc, call,
                       faults, target, supplied, hist, callerVars>>

\* os.CreateTemp(tempDir, "stream-restore-*.db")
CreateTemp ==
    \E fail \in BOOLEAN :
        /\ tmp.step = "create"
        /\ IF fail
           THEN /\ tmp' = [tmp EXCEPT !.step = "failed"]
                /\ ReturnFrom("create temp")
           ELSE /\ tmp' = [tmp EXCEPT !.step = "write", !.exists = TRUE]
                /\ UNCHANGED restoreRes
        /\ UNCHANGED <<hostVars, cfgVars, ctrlVars, now, storeVars, pc, call,
                       faults, target, supplied, hist, callerVars>>

\* tmp.Write(rawSnapshot): all of the image, or an error after part of it
WriteSnapshot ==
    LET raw == decompressBuffer(supplied.snapshot.Header.Compression,
                                supplied.snapshot.Data)
    IN \E fail \in BOOLEAN :
        /\ tmp.step = "write"
        /\ IF fail
           THEN Abandon("write snapshot")
           ELSE /\ tmp' = [tmp EXCEPT !.step = "sync", !.bytes = raw]
                /\ UNCHANGED <<restoreRes, target>>
        /\ UNCHANGED <<hostVars, cfgVars, ctrlVars, now, storeVars, pc, call,
                       faults, supplied, hist, callerVars>>

\* tmp.Sync()
SyncTemp ==
    \E fail \in BOOLEAN :
        /\ tmp.step = "sync"
        /\ IF fail
           THEN Abandon("sync snapshot")
           ELSE /\ tmp' = [tmp EXCEPT !.step = "close"]
                /\ UNCHANGED <<restoreRes, target>>
        /\ UNCHANGED <<hostVars, cfgVars, ctrlVars, now, storeVars, pc, call,
                       faults, supplied, hist, callerVars>>

\* tmp.Close(), then applySegments opens the file and sorts the segments
CloseTemp ==
    \E fail \in BOOLEAN :
        /\ tmp.step = "close"
        /\ IF fail
           THEN Abandon("close")
           ELSE /\ tmp' = [tmp EXCEPT
                             !.step = IF Len(supplied.segments) = 0
                                      THEN "chmod" ELSE "apply",
                             !.todo = SortByTxID(supplied.segments)]
                /\ UNCHANGED <<restoreRes, target>>
        /\ UNCHANGED <<hostVars, cfgVars, ctrlVars, now, storeVars, pc, call,
                       faults, supplied, hist, callerVars>>

\* one round of the loop of applySegments: the frames of the next segment
\* are written into the temporary file; after the last segment, f.Sync()
ApplySegment ==
    \E fail \in BOOLEAN :
        /\ tmp.step = "apply"
        /\ IF fail
           THEN Abandon(IF tmp.todo = <<>> THEN "sync"
                        ELSE "write segment frame")
           ELSE /\ tmp' =
                     IF tmp.todo = <<>> THEN [tmp EXCEPT !.step = "chmod"]
                     ELSE [tmp EXCEPT
                             !.bytes = WriteFrames(
                                 @, populateSegmentPages(Head(tmp.todo)).Pages,
                                 supplied.snapshot.Header.PageSize),
                             !.todo = Tail(@)]
                /\ UNCHANGED <<restoreRes, target>>
        /\ UNCHANGED <<hostVars, cfgVars, ctrlVars, now, storeVars, pc, call,
                       faults, supplied, hist, callerVars>>

\* os.Chmod(tmpName, 0o600)
ChmodTemp ==
    \E fail \in BOOLEAN :
        /\ tmp.step = "chmod"
        /\ IF fail
           THEN Abandon("chmod")
           ELSE /\ tmp' = [tmp EXCEPT !.step = "rename"]
                /\ UNCHANGED <<restoreRes, target>>
        /\ UNCHANGED <<hostVars, cfgVars, ctrlVars, now, storeVars, pc, call,
                       faults, supplied, hist, callerVars>>

\* os.Rename(tmpName, targetPath): the target path is switched to the
\* temporary file in one step, or not at all
RenameTemp ==
    \E fail \in BOOLEAN :
        /\ tmp.step = "rename"
        /\ IF fail
           THEN Abandon("rename")
           ELSE /\ target' = tmp.bytes
                /\ tmp' = [tmp EXCEPT !.step = "done", !.exists = FALSE,
                                      !.bytes = <<>>]
                /\ ReturnFrom("nil")
        /\ UNCHANGED <<hostVars, cfgVars, ctrlVars, now, storeVars, pc, call,
                       faults, supplied, hist, callerVars>>

\* the process dies during restoreToTarget; a death during tmp.Write leaves
\* any part of the image in the temporary file, a death during a segment's
\* frames any part of them
Crash ==
    /\ Materializing
    /\ \E n \in 0..(NumPages * PageSize) :
         LET raw == decompressBuffer(supplied.snapshot.Header.Compression,
                                     supplied.snapshot.Data)
             next == IF tmp.todo = <<>> THEN tmp.bytes
                     ELSE WriteFrames(
                            tmp.bytes,
                            populateSegmentPages(Head(tmp.todo)).Pages,
                            supplied.snapshot.Header.PageSize)
         IN tmp' = [tmp EXCEPT
                      !.step = "crashed",
                      !.bytes =
                          IF tmp.step = "write"
                          THEN SubSeq(raw, 1, IF n < Len(raw) THEN n
                                              ELSE Len(raw))
                          ELSE IF tmp.step = "apply"
                          THEN [i \in 1..Len(next) |->
                                  IF i <= n THEN next[i]
                                  ELSE IF i <= Len(tmp.bytes) THEN tmp.bytes[i]
                                  ELSE 0]
                          ELSE @]
    /\ UNCHANGED <<hostVars, cfgVars, ctrlVars, now, storeVars, pc, call,
                   faults, target, restoreRes, supplied, hist, callerVars>>

NextMaterialize ==
    \/ MkdirAll
    \/ CreateTemp
    \/ WriteSnapshot
    \/ SyncTemp
    \/ CloseTemp
    \/ ApplySegment
    \/ ChmodTemp
    \/ RenameTemp
    \/ Crash

SpecMaterialize == InitMaterialize /\ [][NextMaterialize]_vars

\* the retention specification: a controller with replicas of every
\* backend, the commit path with at most MaxFaults - 1 injected failures,
\* and the retention loop
InitRetention ==
    /\ dbFile = Zeros(NumPages * PageSize)
    /\ hostTx = 0
    /\ codec = "zstd"
    /\ backend \in { b \in [Replicas -> {"file", "s3", "sftp", "nats"}] :
                        \A r \in Replicas : b[r] \in Backends(r) }
    /\ snapshotInterval = ConfiguredInterval
    /\ started = FALSE
    /\ currentGen = 0
    /\ lastTxID = 0
    /\ lastSnapshot = 0
    /\ lastReplication = 0
    /\ replicaLag = [r \in Replicas |-> 0]
    /\ retentionCh = 0
    /\ genCount = 0
    /\ now = 1
    /\ shadowSegs = {}
    /\ shadowSnaps = {}
    /\ replicas = [r \in Replicas |->
                     [segs |-> {}, snaps |-> {}, state |-> EmptyState]]
    /\ pc = "idle"
    /\ call = NoCall
    /\ faults = MaxFaults - 1
    /\ target = Zeros(NumPages * PageSize)
    /\ restoreRes = NoRestore
    /\ supplied = NoSupplied
    /\ tmp = NoTemp
    /\ hist = NoHistory
    /\ window = NoWindow
    /\ life = NoLife
    /\ decoding = NoDecoding
    /\ validating = NoValidating
    /\ normalizing = NoNormalizing
    /\ parked = {}
    /\ puts = NoPuts

NextRetention ==
    \/ Tick
    \/ OnPageFlush
    \/ WriteSegmentToShadow
    \/ PutSegment
    \/ MaybeSnapshot
    \/ PutSnapshot
    \/ FinishSnapshot
    \/ Start
    \/ BeginPass
    \/ EnforceRetention

SpecRetention == InitRetention /\ [][NextRetention]_vars

\* the ticker of retentionLoop fires again and again, and a pass that was
\* begun ends
SpecRetentionLive ==
    SpecRetention /\ WF_vars(BeginPass) /\ WF_vars(EnforceRetention)

\* the observation specification: the commit path with callers that ask
\* for the data-loss window
InitWindow == Init /\ snapshotInterval = ConfiguredInterval

NextWindow ==
    \/ Tick
    \/ OnPageFlush
    \/ WriteSegmentToShadow
    \/ PutSegment
    \/ MaybeSnapshot
    \/ PutSnapshot
    \/ FinishSnapshot
    \/ Start
    \/ CallDataLossWindow

SpecWindow == InitWindow /\ [][NextWindow]_vars

\* the shutdown specification: a controller whose commit path meets no
\* failure, its retention goroutine, and one call of Stop
InitStop ==
    /\ dbFile = Zeros(NumPages * PageSize)
    /\ hostTx = 0
    /\ codec = "zstd"
    /\ backend = [r \in Replicas |-> ReplicaKind(r)]
    /\ snapshotInterval = ConfiguredInterval
    /\ started = FALSE
    /\ currentGen = 0
    /\ lastTxID = 0
    /\ lastSnapshot = 0
    /\ lastReplication = 0
    /\ replicaLag = [r \in Replicas |-> 0]
    /\ retentionCh = 0
    /\ genCount = 0
    /\ now = 1
    /\ shadowSegs = {}
    /\ shadowSnaps = {}
    /\ replicas = [r \in Replicas |->
                     [segs |-> {}, snaps |-> {}, state |-> EmptyState]]
    /\ pc = "idle"
    /\ call = NoCall
    /\ faults = MaxFaults
    /\ target = Zeros(NumPages * PageSize)
    /\ restoreRes = NoRestore
    /\ supplied = NoSupplied
    /\ tmp = NoTemp
    /\ hist = NoHistory
    /\ window = NoWindow
    /\ life = NoLife
    /\ decoding = NoDecoding
    /\ validating = NoValidating
    /\ normalizing = NoNormalizing
    /\ parked = {}
    /\ puts = NoPuts

NextStop ==
    \/ Tick
    \/ OnPageFlush
    \/ WriteSegmentToShadow
    \/ PutSegment
    \/ MaybeSnapshot
    \/ PutSnapshot
    \/ FinishSnapshot
    \/ Start
    \/ BeginPass
    \/ EnforceRetention
    \/ LoopExit
    \/ Stop
    \/ StopWaited
    \/ CloseReplica
    \/ StopReturn

SpecStop == InitStop /\ [][NextStop]_vars

\* select picks among its ready cases at random, so the closeCh case is
\* taken if it is ready again and again; a Prune that was begun returns
SpecStopLive ==
    SpecStop /\ SF_vars(LoopExit) /\ WF_vars(EnforceRetention)

\* decodeSegmentFile is applied to the file at hand
DecodeSegment ==
    /\ ~decoding.done
    /\ decoding.segment # NoSegment
    /\ decoding' = [decoding EXCEPT !.done = TRUE,
                                    !.out = decodeSegmentFile(decoding.file)]
    /\ UNCHANGED <<hostVars, cfgVars, ctrlVars, now, storeVars, pc, call,
                   faults, restoreVars, hist, window, life, pureVars, concVars>>

\* the segments buildSegment produces under the configured codec
BuiltSegments ==
    { buildSegment(txID, txID - 1, FramesOfShape(shape, txID), t) :
        txID \in 1..MaxTxID, shape \in FrameShapes,
        t \in 1..(2 * TicksPerSecond) }

\* the files a reader may find where segment seg was written: the file as
\* marshalled, or that file with the payload of another segment in place
\* of its own
FilesOf(seg) ==
    { [segment |-> seg, file |-> marshalSegment(seg), intact |-> TRUE,
       done |-> FALSE, out |-> NoDecoding.out] }
    \cup { [segment |-> seg,
            file |-> [marshalSegment(seg) EXCEPT !.Data = other.Data],
            intact |-> FALSE, done |-> FALSE, out |-> NoDecoding.out] :
            other \in { o \in BuiltSegments : o.Data # seg.Data } }

\* the codec specification: a segment is built under either codec, written,
\* possibly damaged, and decoded
InitCodec ==
    /\ dbFile = Zeros(NumPages * PageSize)
    /\ hostTx = 0
    /\ codec \in Codecs
    /\ backend = [r \in Replicas |-> ReplicaKind(r)]
    /\ snapshotInterval = ConfiguredInterval
    /\ started = FALSE
    /\ currentGen = 0
    /\ lastTxID = 0
    /\ lastSnapshot = 0
    /\ lastReplication = 0
    /\ replicaLag = [r \in Replicas |-> 0]
    /\ retentionCh = 0
    /\ genCount = 0
    /\ now = 1
    /\ shadowSegs = {}
    /\ shadowSnaps = {}
    /\ replicas = [r \in Replicas |->
                     [segs |-> {}, snaps |-> {}, state |-> EmptyState]]
    /\ pc = "idle"
    /\ call = NoCall
    /\ faults = 0
    /\ target = Zeros(NumPages * PageSize)
    /\ restoreRes = NoRestore
    /\ supplied = NoSupplied
    /\ tmp = NoTemp
    /\ hist = NoHistory
    /\ window = NoWindow
    /\ life = NoLife
    /\ decoding \in UNION { FilesOf(seg) : seg \in BuiltSegments }
    /\ validating = NoValidating
    /\ normalizing = NoNormalizing
    /\ parked = {}
    /\ puts = NoPuts

NextCodec == DecodeSegment

SpecCodec == InitCodec /\ [][NextCodec]_vars

\* validate is applied to the frame at hand
Validate ==
    /\ ~validating.done
    /\ validating.pageSize > 0
    /\ validating' = [validating EXCEPT
                        !.done = TRUE,
                        !.err = validate(validating.frame, validating.pageSize)]
    /\ UNCHANGED <<hostVars, cfgVars, ctrlVars, now, storeVars, pc, call,
                   faults, restoreVars, hist, window, life, decoding,
                   normalizing, concVars>>

\* the frames and page sizes given to validate: every overflow count, the
\* page sizes up to the first one that does not fit a uint32, and data of
\* every length up to twice the uint32 range
ValidateInputs ==
    [frame : { [ID |-> 0, Overflow |-> o, Data |-> Zeros(n)] :
                 o \in 0..(2 ^ Uint32Bits - 1),
                 n \in 0..(2 * 2 ^ Uint32Bits) },
     pageSize : 1..(2 ^ Uint32Bits),
     done : {FALSE}, err : {FALSE}]

\* the frame specification: validate applied to one frame
InitFrame ==
    /\ dbFile = Zeros(NumPages * PageSize)
    /\ hostTx = 0
    /\ codec = "zstd"
    /\ backend = [r \in Replicas |-> ReplicaKind(r)]
    /\ snapshotInterval = ConfiguredInterval
    /\ started = FALSE
    /\ currentGen = 0
    /\ lastTxID = 0
    /\ lastSnapshot = 0
    /\ lastReplication = 0
    /\ replicaLag = [r \in Replicas |-> 0]
    /\ retentionCh = 0
    /\ genCount = 0
    /\ now = 1
    /\ shadowSegs = {}
    /\ shadowSnaps = {}
    /\ replicas = [r \in Replicas |->
                     [segs |-> {}, snaps |-> {}, state |-> EmptyState]]
    /\ pc = "idle"
    /\ call = NoCall
    /\ faults = 0
    /\ target = Zeros(NumPages * PageSize)
    /\ restoreRes = NoRestore
    /\ supplied = NoSupplied
    /\ tmp = NoTemp
    /\ hist = NoHistory
    /\ window = NoWindow
    /\ life = NoLife
    /\ decoding = NoDecoding
    /\ validating \in ValidateInputs
    /\ normalizing = NoNormalizing
    /\ parked = {}
    /\ puts = NoPuts

NextFrame == Validate

SpecFrame == InitFrame /\ [][NextFrame]_vars

\* normalized is applied to the configuration at hand
Normalize ==
    /\ normalizing.given
    /\ ~normalizing.done
    /\ normalizing' = [normalizing EXCEPT
                         !.done = TRUE,
                         !.out = normalized(normalizing.config)]
    /\ UNCHANGED <<hostVars, cfgVars, ctrlVars, now, storeVars, pc, call,
                   faults, restoreVars, hist, window, life, decoding,
                   validating, concVars>>

\* the configurations an operator may write: the codec unset, none or
\* zstd, any level from below zero to MaxLevel, a window or none
NormalizeInputs ==
    [config : [Codec : {"", "none", "zstd"}, Level : (-1)..MaxLevel,
               Window : 0..1],
     given : {TRUE}, done : {FALSE}, out : {NoNormalizing.out}]

\* the compression specification: normalized applied to one configuration
InitCompression ==
    /\ dbFile = Zeros(NumPages * PageSize)
    /\ hostTx = 0
    /\ codec = "zstd"
    /\ backend = [r \in Replicas |-> ReplicaKind(r)]
    /\ snapshotInterval = ConfiguredInterval
    /\ started = FALSE
    /\ currentGen = 0
    /\ lastTxID = 0
    /\ lastSnapshot = 0
    /\ lastReplication = 0
    /\ replicaLag = [r \in Replicas |-> 0]
    /\ retentionCh = 0
    /\ genCount = 0
    /\ now = 1
    /\ shadowSegs = {}
    /\ shadowSnaps = {}
    /\ replicas = [r \in Replicas |->
                     [segs |-> {}, snaps |-> {}, state |-> EmptyState]]
    /\ pc = "idle"
    /\ call = NoCall
    /\ faults = 0
    /\ target = Zeros(NumPages * PageSize)
    /\ restoreRes = NoRestore
    /\ supplied = NoSupplied
    /\ tmp = NoTemp
    /\ hist = NoHistory
    /\ window = NoWindow
    /\ life = NoLife
    /\ decoding = NoDecoding
    /\ validating = NoValidating
    /\ normalizing \in NormalizeInputs
    /\ parked = {}
    /\ puts = NoPuts

NextCompression == Normalize

SpecCompression == InitCompression /\ [][NextCompression]_vars

\* ------------------------------------------------- concurrent Put calls
\* Put calls made at once on one replica
MaxPutters == 3

\* the artefact call i uploads: the segment or the snapshot of
\* transaction i
PutSegmentOf(i) ==
    buildSegment(i, i - 1, CHOOSE fr \in HostFrames(i) : TRUE, now)
PutSnapshotOf(i) ==
    [Header |-> [TxID |-> i, PageCount |-> Len(dbFile) \div PageSize,
                 PageSize |-> PageSize, Compression |-> codec,
                 CreatedAt |-> now],
     Data |-> compressBuffer(codec, dbFile)]

\* the calls: each a PutSegment or a PutSnapshot for some generation, at
\* its first statement
PutCalls ==
    [1..MaxPutters -> [op : {"segment", "snapshot"}, generation : 1..2,
                       pc : {"upload"}, read : {EmptyState},
                       ret : {"none"}]]

\* PutSegment / PutSnapshot: the artefact is written under its name
UploadObject ==
    \E i \in DOMAIN puts.calls, ok \in BOOLEAN :
        /\ puts.calls[i].pc = "upload"
        /\ ~ok => faults < MaxFaults
        /\ LET c == puts.calls[i]
               r == puts.replica
               old == replicas[r]
           IN /\ replicas' = [replicas EXCEPT ![r] =
                    IF ~ok THEN old
                    ELSE IF c.op = "segment"
                    THEN [old EXCEPT !.segs = PutFile(old.segs,
                            <<c.generation, i>>,
                            StoredObject(r, marshalSegment(PutSegmentOf(i))))]
                    ELSE [old EXCEPT !.snaps = PutFile(old.snaps,
                            <<c.generation, now, i>>,
                            StoredObject(r,
                                marshalSnapshot(PutSnapshotOf(i))))]]
              /\ puts' = [puts EXCEPT
                    !.calls[i].pc = IF ok THEN "lock" ELSE "done",
                    !.calls[i].ret = IF ok THEN "none" ELSE "err"]
        /\ faults' = IF ok THEN faults ELSE faults + 1
        /\ UNCHANGED <<hostVars, cfgVars, ctrlVars, now, shadowSegs,
                       shadowSnaps, pc, call, restoreVars, hist, window, life,
                       decoding, pureVars, parked>>

\* a call entering the manifest update without taking the mutex
LockWithoutMutex ==
    \E i \in DOMAIN puts.calls :
        /\ puts.calls[i].pc = "lock"
        /\ puts' = [puts EXCEPT
              !.calls[i].pc =
                  IF ReplicaKind(puts.replica) = "file"
                     /\ puts.calls[i].op = "snapshot"
                  THEN "loaded" ELSE "locked"]
        /\ UNCHANGED <<hostVars, cfgVars, ctrlVars, now, storeVars, pc, call,
                       faults, restoreVars, hist, window, life, decoding,
                       pureVars, parked>>

\* r.mu.Lock() of appendSegment / updateState; FileReplica.updateState
\* (PutSnapshot) goes on to writeState without reading the manifest
Lock ==
    \E i \in DOMAIN puts.calls :
        /\ puts.calls[i].pc = "lock"
        /\ puts.mu = 0
        /\ puts' = [puts EXCEPT
              !.mu = i,
              !.calls[i].pc =
                  IF ReplicaKind(puts.replica) = "file"
                     /\ puts.calls[i].op = "snapshot"
                  THEN "loaded" ELSE "locked"]
        /\ UNCHANGED <<hostVars, cfgVars, ctrlVars, now, storeVars, pc, call,
                       faults, restoreVars, hist, window, life, decoding,
                       pureVars, parked>>

\* readState / LatestState under the mutex; an error returns and unlocks
LoadState ==
    \E i \in DOMAIN puts.calls, ok \in BOOLEAN :
        /\ puts.calls[i].pc = "locked"
        /\ ~ok => faults < MaxFaults
        /\ puts' = IF ok
                   THEN [puts EXCEPT
                           !.calls[i].pc = "loaded",
                           !.calls[i].read = replicas[puts.replica].state]
                   ELSE [puts EXCEPT !.calls[i].pc = "done",
                                     !.calls[i].ret = "err",
                                     !.mu = 0]
        /\ faults' = IF ok THEN faults ELSE faults + 1
        /\ UNCHANGED <<hostVars, cfgVars, ctrlVars, now, storeVars, pc, call,
                       restoreVars, hist, window, life, decoding, pureVars,
                       parked>>

\* the manifest a call writes from the manifest it read
UpdatedState(i) ==
    LET c == puts.calls[i]
        r == puts.replica
    IN IF c.op = "segment"
       THEN LET desc == SegmentDescriptor(c.generation, PutSegmentOf(i))
            IN IF ReplicaKind(r) = "file"
               THEN appendSegment(c.read, c.generation, desc, now)
               ELSE s3UpdateSegment(c.read, c.generation, desc, now)
       ELSE LET desc == SnapshotDescriptor(c.generation, PutSnapshotOf(i))
            IN IF ReplicaKind(r) = "file"
               THEN fileUpdateState(c.generation, desc, now)
               ELSE s3UpdateSnapshot(c.read, c.generation, desc, now)

\* writeState / putObject of the manifest, then the deferred Unlock and
\* the return
StoreState ==
    \E i \in DOMAIN puts.calls, ok \in BOOLEAN :
        /\ puts.calls[i].pc = "loaded"
        /\ ~ok => faults < MaxFaults
        /\ replicas' = IF ok
                       THEN [replicas EXCEPT ![puts.replica].state =
                                UpdatedState(i)]
                       ELSE replicas
        /\ puts' = [puts EXCEPT
              !.calls[i].pc = "done",
              !.calls[i].ret = IF ok THEN "nil" ELSE "err",
              !.order = IF ok THEN Append(@, i) ELSE @,
              !.mu = 0]
        /\ faults' = IF ok THEN faults ELSE faults + 1
        /\ UNCHANGED <<hostVars, cfgVars, ctrlVars, now, shadowSegs,
                       shadowSnaps, pc, call, restoreVars, hist, window, life,
                       decoding, pureVars, parked>>

\* the manifest specification: MaxPutters callers put segments and
\* snapshots on one replica at once
InitManifest ==
    /\ dbFile = Zeros(NumPages * PageSize)
    /\ hostTx = 0
    /\ codec = "zstd"
    /\ backend = [r \in Replicas |-> ReplicaKind(r)]
    /\ snapshotInterval = ConfiguredInterval
    /\ started = TRUE
    /\ currentGen = 0
    /\ lastTxID = 0
    /\ lastSnapshot = 0
    /\ lastReplication = 0
    /\ replicaLag = [r \in Replicas |-> 0]
    /\ retentionCh = 0
    /\ genCount = 0
    /\ now = 1
    /\ shadowSegs = {}
    /\ shadowSnaps = {}
    /\ replicas = [r \in Replicas |->
                     [segs |-> {}, snaps |-> {}, state |-> EmptyState]]
    /\ pc = "idle"
    /\ call = NoCall
    /\ faults = MaxFaults - 1
    /\ target = Zeros(NumPages * PageSize)
    /\ restoreRes = NoRestore
    /\ supplied = NoSupplied
    /\ tmp = NoTemp
    /\ hist = NoHistory
    /\ window = NoWindow
    /\ life = NoLife
    /\ decoding = NoDecoding
    /\ validating = NoValidating
    /\ normalizing = NoNormalizing
    /\ parked = {}
    /\ puts \in [replica : Replicas, mu : {0}, calls : PutCalls,
                 order : {<<>>}]

NextManifest ==
    \/ UploadObject
    \/ Lock
    \/ LoadState
    \/ StoreState

SpecManifest == InitManifest /\ [][NextManifest]_vars

\* ------------------------------------------- concurrent OnPageFlush calls
\* OnPageFlush calls the host has in flight at once
MaxInFlight == 2

\* the host commits the next transaction and calls OnPageFlush on the
\* committing thread: buildSegment, up to c.mu.Lock() of persistSegment
HostFlush ==
    \E frames \in HostFrames(hostTx + 1) :
        /\ pc = "idle"
        /\ life.observer
        /\ hostTx < MaxTxID
        /\ LET txID == hostTx + 1
               t == now + 1
           IN /\ dbFile' = HostCommit(dbFile, frames)
              /\ hostTx' = txID
              /\ now' = t
              /\ call' = [NoCall EXCEPT
                            !.n = txID,
                            !.TxID = txID,
                            !.ParentTxID = hostTx,
                            !.segment = buildSegment(txID, hostTx, frames, t)]
              /\ pc' = "enter"
        /\ UNCHANGED <<cfgVars, ctrlVars, storeVars, faults, restoreVars, hist,
                       callerVars>>

\* the generation decision of persistSegment, under the state lock
DecideGeneration ==
    /\ pc = "enter"
    /\ LET rotate == NeedsNewGeneration(currentGen, lastTxID, call.ParentTxID)
           generation == IF rotate THEN genCount + 1 ELSE currentGen
       IN /\ genCount' = IF rotate THEN genCount + 1 ELSE genCount
          /\ currentGen' = generation
          /\ lastTxID' = call.TxID
          /\ lastReplication' = now
          /\ call' = [call EXCEPT !.generation = generation,
                                  !.prevTxID = lastTxID,
                                  !.prevGen = currentGen,
                                  !.minted = genCount]
          /\ pc' = "shadow"
    /\ UNCHANGED <<hostVars, cfgVars, lastSnapshot, replicaLag, retentionCh,
                   now, storeVars, faults, restoreVars, hist, callerVars>>

\* the scheduler leaves the running call where it is and the host thread
\* of another commit gets the processor
Park ==
    /\ pc # "idle"
    /\ Cardinality(parked) < MaxInFlight - 1
    /\ parked' = parked \cup {[call |-> call, pc |-> pc]}
    /\ call' = NoCall
    /\ pc' = "idle"
    /\ UNCHANGED <<hostVars, cfgVars, ctrlVars, now, storeVars, faults,
                   restoreVars, hist, window, life, decoding, pureVars, puts>>

\* a call that was left goes on from where it was
Resume ==
    \E p \in parked :
        /\ pc = "idle"
        /\ parked' = parked \ {p}
        /\ call' = p.call
        /\ pc' = p.pc
        /\ UNCHANGED <<hostVars, cfgVars, ctrlVars, now, storeVars, faults,
                       restoreVars, hist, window, life, decoding, pureVars,
                       puts>>

\* the concurrent specification: a started controller whose host commits
\* consecutive transactions and delivers their OnPageFlush calls at once
InitConcurrent ==
    /\ dbFile = Zeros(NumPages * PageSize)
    /\ hostTx = 0
    /\ codec = "zstd"
    /\ backend = [r \in Replicas |-> ReplicaKind(r)]
    /\ snapshotInterval = ConfiguredInterval
    /\ started = TRUE
    /\ currentGen = 0
    /\ lastTxID = 0
    /\ lastSnapshot = 0
    /\ lastReplication = 0
    /\ replicaLag = [r \in Replicas |-> 0]
    /\ retentionCh = 0
    /\ genCount = 0
    /\ now = 1
    /\ shadowSegs = {}
    /\ shadowSnaps = {}
    /\ replicas = [r \in Replicas |->
                     [segs |-> {}, snaps |-> {}, state |-> EmptyState]]
    /\ pc = "idle"
    /\ call = NoCall
    /\ faults = MaxFaults - 1
    /\ target = Zeros(NumPages * PageSize)
    /\ restoreRes = NoRestore
    /\ supplied = NoSupplied
    /\ tmp = NoTemp
    /\ hist = NoHistory
    /\ window = NoWindow
    /\ life = [NoLife EXCEPT !.configured = ConfiguredInterval,
                             !.loop = "select"]
    /\ decoding = NoDecoding
    /\ validating = NoValidating
    /\ normalizing = NoNormalizing
    /\ parked = {}
    /\ puts = NoPuts

NextConcurrent ==
    \/ Tick
    \/ HostFlush
    \/ DecideGeneration
    \/ WriteSegmentToShadow
    \/ PutSegment
    \/ MaybeSnapshot
    \/ PutSnapshot
    \/ FinishSnapshot
    \/ Park
    \/ Resume

SpecConcurrent == InitConcurrent /\ [][NextConcurrent]_vars

\* the configuration specification: the commit path of a controller whose
\* configuration names a supported codec or an unsupported one
InitAnyCodec ==
    /\ dbFile = Zeros(NumPages * PageSize)
    /\ hostTx = 0
    /\ codec \in Codecs \cup {"lz4"}
    /\ backend = [r \in Replicas |-> ReplicaKind(r)]
    /\ snapshotInterval = ConfiguredInterval
    /\ started = FALSE
    /\ currentGen = 0
    /\ lastTxID = 0
    /\ lastSnapshot = 0
    /\ lastReplication = 0
    /\ replicaLag = [r \in Replicas |-> 0]
    /\ retentionCh = 0
    /\ genCount = 0
    /\ now = 1
    /\ shadowSegs = {}
    /\ shadowSnaps = {}
    /\ replicas = [r \in Replicas |->
                     [segs |-> {}, snaps |-> {}, state |-> EmptyState]]
    /\ pc = "idle"
    /\ call = NoCall
    /\ faults = 0
    /\ target = Zeros(NumPages * PageSize)
    /\ restoreRes = NoRestore
    /\ supplied = NoSupplied
    /\ tmp = NoTemp
    /\ hist = NoHistory
    /\ window = NoWindow
    /\ life = NoLife
    /\ decoding = NoDecoding
    /\ validating = NoValidating
    /\ normalizing = NoNormalizing
    /\ parked = {}
    /\ puts = NoPuts

SpecAnyCodec == InitAnyCodec /\ [][Next]_vars

\* the fan-out specification: the commit path with the call of a replica's
\* PutSegment and its return as two steps, so that an upload can be slow
\* or never return
BeginPutSegment(r) ==
    /\ pc = "put"
    /\ r = call.idx
    /\ r <= NumReplicas
    /\ call.begun < r
    /\ call' = [call EXCEPT !.begun = r]
    /\ UNCHANGED <<hostVars, cfgVars, ctrlVars, now, storeVars, pc, faults,
                   restoreVars, hist, callerVars>>

\* replica.PutSegment returns; the loop of persistSegment goes round
EndPutSegment ==
    /\ call.begun = call.idx
    /\ PutSegment

NextFanOut ==
    \/ Tick
    \/ OnPageFlush
    \/ WriteSegmentToShadow
    \/ \E r \in Replicas : BeginPutSegment(r)
    \/ EndPutSegment
    \/ MaybeSnapshot
    \/ PutSnapshot
    \/ FinishSnapshot
    \/ Start

SpecFanOut == Init /\ [][NextFanOut]_vars

\* ------------------------------------------------------------- properties
Range(seq) == { seq[i] : i \in 1..Len(seq) }

\* complete segment files staged in the shadow log under a generation
StagedSegments(generation) ==
    { f \in shadowSegs : f.key[1] = generation /\ f.body.fmt = "file" }

\* C1: a call is staged under a freshly minted generation exactly when it
\* is the first call, or the previous call's txID is non-zero and differs
\* from this call's parentTxID; otherwise it is staged under the generation
\* of the previous call.
C1_GenerationDecision ==
    call.n > 0 =>
        LET fresh == call.generation > call.minted
            expected == \/ call.n = 1
                        \/ (call.prevTxID # 0 /\ call.prevTxID # call.ParentTxID)
        IN /\ fresh <=> expected
           /\ ~expected => call.generation = call.prevGen
           /\ call.staged =>
                \E f \in StagedSegments(call.generation) :
                    f.body.Header.TxID = call.TxID

\* a later call was staged under a generation other than its predecessor's
C1_Witness ==
    call.n >= 2 /\ call.staged /\ call.generation # call.prevGen

\* C2: within a generation of the shadow log the staged segments have
\* strictly increasing txIDs and each segment's parentTxID is the txID of
\* the segment staged immediately before it, also after failed calls.
C2_ShadowChainUnbroken ==
    pc = "idle" =>
        \A f, g \in shadowSegs :
            (/\ f.body.fmt = "file" /\ g.body.fmt = "file"
             /\ f.key[1] = g.key[1]
             /\ f.key[2] < g.key[2]
             /\ ~\E h \in StagedSegments(f.key[1]) :
                    f.key[2] < h.key[2] /\ h.key[2] < g.key[2])
            => g.body.Header.ParentTxID = f.body.Header.TxID

\* C3: consecutive segment descriptors a, b of any replica's manifest
\* satisfy b.firstTxID = a.lastTxID + 1, whatever uploads failed.
C3_ManifestChainContinuous ==
    pc = "idle" =>
        \A r \in Replicas :
            LET segs == replicas[r].state.Segments
            IN \A i \in 1..(Len(segs) - 1) :
                    segs[i + 1].FirstTxID = segs[i].LastTxID + 1

\* C4: a replica's manifest never lists segment descriptors while its
\* snapshot is null.
C4_ManifestSegmentsHaveSnapshot ==
    \A r \in Replicas :
        replicas[r].state.Segments # <<>> =>
            replicas[r].state.Snapshot # NoSnapshot

\* C5: once the segment is staged, PutSegment is attempted on every replica
\* whatever failed before, the call returns only after all were attempted,
\* and the returned error names every replica that failed.
C5_FanOutAttemptsAll ==
    /\ (pc = "put" /\ call.idx <= NumReplicas) =>
            call.attempted = 1..(call.idx - 1)
    /\ (call.staged /\ pc \in {"idle", "putsnap"}) =>
            call.attempted = Replicas
    /\ (call.staged /\ pc = "idle") =>
            /\ \A r \in call.failed :
                    [src |-> r, msg |-> "put segment"] \in Range(call.errs)
            /\ call.failed # {} => call.ret = "err"

\* the first replica failed and the call still went on to the others
C5_Witness ==
    /\ pc = "idle" /\ call.staged
    /\ 1 \in call.failed
    /\ call.attempted = Replicas
    /\ call.ret = "err"

\* a step that performs one restore
RestoreStep == restoreRes'.n = restoreRes.n + 1

\* C6: after commits that all returned nil, the first of which took a
\* snapshot, an auto-restore that finds its snapshot in the shadow log and
\* writes an absent target produces the database file as of the last commit
C6_ShadowRestoreEqualsDatabase ==
    [][(/\ RestoreStep
        /\ restoreRes'.entry = "auto"
        /\ ~TargetPresent(target)
        /\ hist.allOK /\ hist.firstSnap /\ ~hist.wiped
        /\ restoreRes'.localFound
        /\ restoreRes'.err = "nil")
       => target' = dbFile]_vars

\* C7: a restore through either entry point that finds a non-empty target
\* leaves it unchanged and returns nil
C7_ExistingTargetUntouched ==
    [][(RestoreStep /\ TargetPresent(target))
       => (target' = target /\ restoreRes'.err = "nil")]_vars

\* the first replica, in configured order, whose LatestState succeeds and
\* reports a snapshot; 0 if there is none
FirstReporting(latestErr) ==
    LET S == { r \in Replicas :
                 r \notin latestErr /\ replicas[r].state.Snapshot # NoSnapshot }
    IN IF S = {} THEN 0 ELSE CHOOSE r \in S : \A q \in S : r <= q

\* the snapshot image and segments that replica r's manifest lists
ImageFromReplica(r) ==
    RestoredImage(
        FetchSnapshot(r, replicas[r].state.Snapshot, FALSE).snap,
        FetchSegments(r, replicas[r].state.Segments, 2, 0).segments)

\* C8: auto-restore contacts a replica only if no snapshot file of the
\* shadow log decodes; it then selects the first replica whose LatestState
\* reports a snapshot, contacts no replica after it, and a successful
\* restore writes the image of that replica's snapshot and segments
C8_FirstReplicaWithSnapshot ==
    [][(RestoreStep /\ restoreRes'.entry = "auto")
       => LET rr == restoreRes'
          IN /\ rr.contacted # {} =>
                    /\ \A f \in shadowSnaps : f.body.fmt # "file"
                    /\ rr.source = FirstReporting(rr.latestErr)
                    /\ rr.contacted = IF rr.source = 0 THEN Replicas
                                      ELSE 1..rr.source
             /\ rr.localFound => rr.contacted = {}
             /\ (rr.source # 0 /\ rr.err = "nil") =>
                    target' = ImageFromReplica(rr.source)]_vars

\* an auto-restore after the shadow log was lost took replica 1's snapshot
\* and never contacted replica 2, whose manifest has a snapshot too
C8_Witness ==
    /\ restoreRes.entry = "auto"
    /\ restoreRes.err = "nil"
    /\ restoreRes.source = 1
    /\ restoreRes.contacted = {1}
    /\ hist.wiped
    /\ replicas[2].state.Snapshot # NoSnapshot
    /\ TargetPresent(target)

\* some fetch from replica r fails: the failAt-th fetch hits an I/O error,
\* or an object the manifest lists is missing or does not decode
SelectedFetchFails(r, failAt) ==
    LET st == replicas[r].state
        snapOK == \E o \in replicas[r].snaps :
                     /\ o.key = <<st.Snapshot.Gen, st.Snapshot.CreatedAt,
                                  st.Snapshot.TxID>>
                     /\ o.body.fmt = "file"
        segOK(i) == \E o \in replicas[r].segs :
                       /\ o.key = <<st.Segments[i].Gen, st.Segments[i].TxID>>
                       /\ o.body.fmt = "file"
    IN \/ failAt = 1
       \/ ~snapOK
       \/ \E i \in 1..Len(st.Segments) : failAt = i + 1 \/ ~segOK(i)

\* C9: when a fetch from the selected replica fails, the restore returns
\* the fetch error, the target is left as it was, and no replica after the
\* selected one is contacted
C9_FetchFailureAborts ==
    [][RestoreStep
       => LET rr == restoreRes'
              s == FirstReporting(rr.latestErr)
          IN (rr.contacted # {} /\ s # 0 /\ SelectedFetchFails(s, rr.failAt))
             => /\ rr.err \in {"fetch snapshot", "fetch segment"}
                /\ target' = target
                /\ rr.source = s
                /\ rr.contacted = 1..s]_vars

\* a segment fetch from replica 1 failed while replica 2's manifest had a
\* snapshot: the restore reported the error and the target is still absent
C9_Witness ==
    /\ restoreRes.n > 0
    /\ restoreRes.err = "fetch segment"
    /\ restoreRes.source = 1
    /\ restoreRes.failAt > 1
    /\ replicas[2].state.Snapshot # NoSnapshot
    /\ ~TargetPresent(target)

\* frame fr of a segment covers byte b of a file of pageSize-byte pages
Covers(fr, b, pageSize) ==
    b > fr.ID * pageSize /\ b <= fr.ID * pageSize + Len(fr.Data)

\* the supplied segments with a frame that covers byte b
Covering(b) ==
    { k \in DOMAIN supplied.segments :
        \E j \in DOMAIN supplied.segments[k].Pages :
            Covers(supplied.segments[k].Pages[j], b, PageSize) }

\* the byte the restored file must hold at b: the snapshot image's, unless
\* segments cover b, and then the one written by the highest txID
ExpectedByte(b) ==
    IF Covering(b) = {}
    THEN IF b <= Len(supplied.image) THEN supplied.image[b] ELSE 0
    ELSE LET k == CHOOSE x \in Covering(b) : \A y \in Covering(b) :
                    supplied.segments[y].Header.TxID
                        <= supplied.segments[x].Header.TxID
             seg == supplied.segments[k]
             j == CHOOSE x \in DOMAIN seg.Pages :
                    /\ Covers(seg.Pages[x], b, PageSize)
                    /\ \A y \in DOMAIN seg.Pages :
                          Covers(seg.Pages[y], b, PageSize) => y <= x
         IN seg.Pages[j].Data[b - seg.Pages[j].ID * PageSize]

\* the length of the restored file: the image, extended by any frame that
\* reaches past its end
ExpectedLen ==
    LET ends == { Len(supplied.image) } \cup
                { fr.ID * PageSize + Len(fr.Data) :
                    fr \in UNION { Range(seg.Pages) :
                                     seg \in Range(supplied.segments) } }
    IN CHOOSE n \in ends : \A m \in ends : m <= n

\* C10: the file a successful restoreToTarget produces is the decompressed
\* snapshot image overwritten by every supplied segment's frames at
\* frame.ID * pageSize, a byte covered by several segments holding the data
\* of the highest txID, in whatever order the segments were supplied
C10_RestoredImage ==
    (restoreRes.entry = "apply" /\ restoreRes.err = "nil") =>
        /\ Len(target) = ExpectedLen
        /\ \A b \in 1..Len(target) : target[b] = ExpectedByte(b)

\* segments were supplied in descending txID order, two of them cover the
\* same byte, and the restored file holds the later transaction's data
C10_Witness ==
    /\ restoreRes.entry = "apply"
    /\ restoreRes.err = "nil"
    /\ \E i, j \in DOMAIN supplied.segments :
          /\ i < j
          /\ supplied.segments[i].Header.TxID > supplied.segments[j].Header.TxID
          /\ \E b \in 1..Len(target) :
                /\ {i, j} \subseteq Covering(b)
                /\ target[b] # supplied.image[b]
                /\ target[b] = 10 * supplied.segments[i].Header.TxID
                                 + (b - supplied.segments[i].Pages[1].ID * PageSize)


\* the snapshot objects a replica holds for a generation
GenSnaps(rep, generation) == { f \in rep.snaps : f.key[1] = generation }

\* the segment objects a replica holds for a generation
GenSegs(rep, generation) == { f \in rep.segs : f.key[1] = generation }

\* the snapshots of a set with the newest creation time
Newest(snaps) == { f \in snaps : \A h \in snaps : h.key[2] <= f.key[2] }

\* a retention pass in a run in which no operation has failed
CleanPass == EnforceRetention /\ faults' = MaxFaults - 1

\* C11: on every backend, after Prune of a generation the surviving
\* snapshots are exactly those created after now - snapshotRetention, plus
\* the snapshot with the newest creation time.
C11_PruneKeepsRecentAndNewest ==
    [][CleanPass =>
        \A r \in Replicas :
            LET before == GenSnaps(replicas[r], life.gen)
            IN GenSnaps(replicas'[r], life.gen)
                 = { f \in before : f.key[2] > now - ConfiguredRetention }
                     \cup Newest(before)]_vars

\* the generations in which a replica holds an object
HeldGenerations(rep) == { f.key[1] : f \in rep.snaps \cup rep.segs }

\* the snapshots of a set with the oldest creation time
Oldest(snaps) == { f \in snaps : \A h \in snaps : f.key[2] <= h.key[2] }

\* a clean retention pass that starts while no commit is in progress
QuietPass == CleanPass /\ pc = "idle"

\* C12: after a Prune, every generation in which the pruned replica holds
\* objects holds a snapshot, and every surviving segment of the generation
\* has a txID above that of the generation's oldest surviving snapshot.
C12_RetentionFloor ==
    [][QuietPass =>
        \A r \in Replicas :
            \A g \in HeldGenerations(replicas'[r]) :
                /\ GenSnaps(replicas'[r], g) # {}
                /\ \A seg \in GenSegs(replicas'[r], g) :
                       \A snap \in Oldest(GenSnaps(replicas'[r], g)) :
                           seg.key[2] > snap.key[3]]_vars

\* a step in which DataLossWindow is called
WindowStep == window'.n = window.n + 1

\* the replicas with a recorded successful upload
Succeeded == { r \in Replicas : replicaLag[r] # 0 }

\* C13: DataLossWindow returns 0 when nothing was ever replicated,
\* now - lastReplication when no replica has a recorded success, and
\* otherwise the greatest now - replicaLag[r] among the replicas that have
\* one; a replica that never succeeded does not contribute.
C13_DataLossWindowValue ==
    [][WindowStep =>
        /\ (Succeeded = {} /\ lastReplication = 0) => window'.result = 0
        /\ (Succeeded = {} /\ lastReplication # 0)
              => window'.result = now - lastReplication
        /\ Succeeded # {}
              => /\ \E r \in Succeeded : window'.result = now - replicaLag[r]
                 /\ \A r \in Succeeded : window'.result >= now - replicaLag[r]
       ]_vars

\* C13 witness: a call made when replica 1 has succeeded and replica 2
\* never has returned the positive age of replica 1's last success
C13_Witness ==
    /\ window.n > 0
    /\ window.lag = replicaLag
    /\ replicaLag[1] # 0
    /\ replicaLag[2] = 0
    /\ window.result = now - replicaLag[1]
    /\ window.result > 0

\* C14: of two successive DataLossWindow calls with no successful replica
\* upload between them, the second does not return less than the first.
C14_WindowMonotone ==
    [][(WindowStep /\ window.n > 0 /\ replicaLag = window.lag)
          => window'.result >= window.result]_vars

\* C15: Stop calls Close on every replica exactly once, also when some
\* Close fails, and returns an error exactly when some Close failed.
C15_StopClosesEveryReplica ==
    /\ \A r \in Replicas : life.closes[r] <= 1
    /\ life.stop = "done"
         => /\ \A r \in Replicas : life.closes[r] = 1
            /\ life.ret = "err" <=> life.errs # <<>>
            /\ life.ret = "nil" <=> life.errs = <<>>

\* C15 witness: Stop has returned an error after the first replica's Close
\* failed, and the last replica was closed all the same
C15_Witness ==
    /\ life.stop = "done"
    /\ life.ret = "err"
    /\ Head(life.errs) = 1
    /\ life.closes[NumReplicas] = 1

\* C16: once Stop is called on a started controller the retention
\* goroutine eventually exits; Stop closes no replica and does not return
\* before the goroutine has exited; and no retention pass begins after Stop
\* has returned.
C16_StopJoinsRetentionLoop ==
    /\ (life.closeCh = "closed" /\ life.loop \in {"select", "pass"})
          ~> (life.loop = "exited")
    /\ []((/\ life.onStarted
            /\ \/ life.stop \in {"close", "done"}
               \/ \E r \in Replicas : life.closes[r] > 0)
           => life.loop = "exited")
    /\ [][(life.onStarted /\ life.stop = "done") => life'.loop # "pass"]_vars

\* C16 witness: Stop was called while a retention pass was running, has
\* returned, the goroutine is gone and a trigger is still pending
C16_Witness ==
    /\ life.onStarted
    /\ life.stop = "done"
    /\ life.loop = "exited"
    /\ retentionCh = 1

\* a step in which an OnPageFlush call returns
ReturnStep == pc # "idle" /\ pc' = "idle"

\* C17: on a started controller whose snapshot interval was configured as
\* 0, every OnPageFlush creates a snapshot (no operation failing).
C17_ZeroIntervalSnapshotsEveryCommit ==
    [][(ReturnStep /\ started /\ life.configured = 0 /\ faults' = 0)
          => call'.snapTaken]_vars

\* the segment files of the shadow log that do not decode
CorruptShadowSegments == { f \in shadowSegs : decodeSegmentFile(f.body).err }

\* the snapshot files of the shadow log that decode
SoundShadowSnapshots == { f \in shadowSnaps : ~decodeSnapshotFile(f.body).err }

\* C18: when a segment file of the shadow log is corrupt, the local restore
\* enumeration returns no error and still finds the snapshots and segments
\* that are sound.
C18_CorruptSegmentSkipped ==
    [][(/\ RestoreStep
        /\ restoreRes'.entry = "auto"
        /\ ~TargetPresent(target)
        /\ CorruptShadowSegments # {}
        /\ SoundShadowSnapshots # {})
          => /\ restoreRes'.err # "load segments"
             /\ restoreRes'.localFound]_vars

\* C19: decoding a segment file whose payload differs from the payload
\* the header checksum was computed over fails; no frames are returned.
C19_ChecksumMismatchFails ==
    (/\ decoding.done
     /\ crc64(decoding.file.Header.Compression, decoding.file.Data)
          # decoding.file.Header.Checksum)
        => decoding.out.err

\* C20: decoding the file of a segment built with codec none or zstd
\* returns the header and the ordered frames of the segment, and
\* decompressBuffer undoes compressBuffer on its payload.
C20_SegmentRoundTrip ==
    (decoding.done /\ decoding.intact)
        => /\ ~decoding.out.err
           /\ decoding.out.seg.Header = decoding.segment.Header
           /\ decoding.out.seg.Pages = decoding.segment.Pages
           /\ decompressBuffer(codec, decoding.segment.Data)
                = [Header |-> [decoding.segment.Header EXCEPT !.Checksum = 0],
                   Pages |-> decoding.segment.Pages]

\* a step in which replica r's PutSegment returns nil
PutSegmentOK(r) ==
    /\ pc = "put"
    /\ call.idx = r
    /\ call'.idx = r + 1
    /\ r \notin call'.failed

\* a step in which replica r's PutSnapshot returns nil
PutSnapshotOK(r) ==
    /\ pc = "putsnap"
    /\ call.idx = r
    /\ call'.idx = r + 1
    /\ call'.snapErrs = call.snapErrs

\* what FetchSegment returns for the last descriptor of replica r's manifest
FetchLastListed(r) ==
    LET descs == replicas[r].state.Segments
    IN FetchSegment(r, descs[Len(descs)], FALSE)

\* what FetchSnapshot returns for the snapshot of replica r's manifest
FetchListedSnapshot(r) == FetchSnapshot(r, replicas[r].state.Snapshot, FALSE)

\* C21: on every backend, what FetchSegment (FetchSnapshot) returns through
\* the descriptor a successful PutSegment (PutSnapshot) recorded in the
\* manifest has the header and the frames (the image) that were put.
C21_PutThenFetch ==
    [][\A r \in Replicas :
        /\ PutSegmentOK(r) =>
              /\ ~FetchLastListed(r)'.err
              /\ FetchLastListed(r)'.seg.Header = call.segment.Header
              /\ FetchLastListed(r)'.seg.Pages = call.segment.Pages
        /\ PutSnapshotOK(r) =>
              /\ ~FetchListedSnapshot(r)'.err
              /\ FetchListedSnapshot(r)'.snap.Header = call.snap.Header
              /\ decompressBuffer(codec, FetchListedSnapshot(r)'.snap.Data)
                   = decompressBuffer(codec, call.snap.Data)]_vars

\* C22: validate accepts a frame exactly when the length of its data is
\* (overflow + 1) * pageSize as an unbounded product, for every overflow a
\* uint32 holds and every positive page size.
C22_ValidateExactLength ==
    validating.done =>
        (~validating.err
            <=> Len(validating.frame.Data)
                  = (validating.frame.Overflow + 1) * validating.pageSize)

\* the zstd levels the specification lists for the user levels 1..11
SpecifiedZSTDLevels == <<-5, -3, -1, 0, 3, 6, 9, 12, 15, 18, 22>>

\* C23: for zstd (configured or by default) the normalized level is the
\* listed level for user levels 1..11, 22 for any level above 11, and 6 when
\* the level is 0 (unset).
C23_ZSTDLevelNormalization ==
    (normalizing.done /\ normalizing.config.Codec \in {"", "zstd"}) =>
        LET level == normalizing.config.Level
        IN /\ normalizing.out.Codec = "zstd"
           /\ level \in 1..11 => normalizing.out.Level = SpecifiedZSTDLevels[level]
           /\ level > 11 => normalizing.out.Level = 22
           /\ level = 0 => normalizing.out.Level = 6

\* a step in which writeSegmentToShadow returns an error
StagingFails == pc = "shadow" /\ faults' = faults + 1

\* C24: when staging a segment in the shadow log fails, OnPageFlush returns
\* the error and no PutSegment and no snapshot is attempted for the commit;
\* every segment object a replica holds has its complete file in the
\* shadow log under the same generation.
C24_StagedBeforeReplicated ==
    /\ [][StagingFails =>
            /\ pc' = "idle"
            /\ call'.ret = "err"
            /\ replicas' = replicas
            /\ shadowSnaps' = shadowSnaps]_vars
    /\ [](~call.staged => (call.attempted = {} /\ ~call.snapTaken))
    /\ [](\A r \in Replicas : \A o \in replicas[r].segs :
             \E f \in StagedSegments(o.key[1]) : f.key = o.key)

\* C24 witness: the second commit failed in staging and has returned an
\* error; the replicas hold the first commit's segment and not the second's
C24_Witness ==
    /\ pc = "idle"
    /\ call.n = 2
    /\ ~call.staged
    /\ call.ret = "err"
    /\ \A r \in Replicas :
          /\ \E o \in replicas[r].segs : o.key[2] = call.prevTxID
          /\ ~\E o \in replicas[r].segs : o.key[2] = call.TxID

\* createSnapshot was called in the call that returns in this step
SnapshotCreated ==
    \/ call'.snapTaken
    \/ [src |-> 0, msg |-> "create snapshot"] \in Range(call'.errs)

\* lastSnapshot is zero or snapshotInterval has elapsed since
IntervalElapsed ==
    lastSnapshot = 0 \/ now - lastSnapshot >= snapshotInterval

\* snapshots that succeeded on every replica lie snapshotInterval apart
SnapshotsSpaced ==
    [][(ReturnStep /\ started) =>
        \A s \in hist.fullSnaps : \A t \in hist'.fullSnaps \ hist.fullSnaps :
            t - s >= snapshotInterval]_vars

C26_SegmentsUpToOldestKept ==
    [][CleanPass =>
        \A r \in Replicas :
            LET kept == GenSnaps(replicas'[r], life.gen)
                segs == GenSegs(replicas[r], life.gen)
            IN \A seg \in segs :
                  seg \notin replicas'[r].segs
                     <=> \E snap \in Oldest(kept) : seg.key[2] <= snap.key[3]]_vars

C27_ReplicaWitness ==
    /\ restoreRes.err = "nil"
    /\ restoreRes.source # 0
    /\ restoreRes.applied.segments # <<>>

\* the manifest of the replica the concurrent Put calls work on
PutManifest == replicas[puts.replica].state

\* the calls whose manifest write succeeded after that of call i
LaterWrites(i) ==
    { puts.order[k] : k \in { n \in DOMAIN puts.order :
                                \E j \in 1..(n - 1) : puts.order[j] = i } }

\* call i is a PutSegment that returned nil, for the generation the
\* manifest has now, with no successful PutSnapshot after it
SegmentPutNotSuperseded(i) ==
    /\ puts.calls[i].op = "segment"
    /\ puts.calls[i].ret = "nil"
    /\ puts.calls[i].generation = PutManifest.Generation
    /\ \A j \in LaterWrites(i) : puts.calls[j].op # "snapshot"

PutDescriptorListed(i) ==
    SegmentDescriptor(puts.calls[i].generation, PutSegmentOf(i))
        \in Range(PutManifest.Segments)

\* C28 as stated: with Put calls running at once on one replica, every
\* successful PutSegment of the manifest's generation that no snapshot
\* followed has its descriptor in the manifest.
C28_NoLostUpdate ==
    puts.replica # 0 =>
        \A i \in DOMAIN puts.calls :
            SegmentPutNotSuperseded(i) => PutDescriptorListed(i)

\* C28: with Put calls running at once on one replica, at most one of them
\* is inside the manifest read-modify-write, and every successful
\* PutSegment of the manifest's generation that was followed neither by a
\* snapshot nor by an update for another generation has its descriptor in
\* the manifest.
C28_NoLostUpdateWithinGeneration ==
    puts.replica # 0 =>
        /\ Cardinality({ i \in DOMAIN puts.calls :
                           puts.calls[i].pc \in {"locked", "loaded"} }) <= 1
        /\ \A i \in DOMAIN puts.calls :
             (/\ SegmentPutNotSuperseded(i)
              /\ \A j \in LaterWrites(i) :
                    puts.calls[j].generation = puts.calls[i].generation)
             => PutDescriptorListed(i)

\* C28 witness: one PutSegment has returned with its descriptor listed, a
\* second call of the same generation holds the mutex with the manifest
\* read, and a third waits for the mutex
C28_Witness ==
    /\ puts.replica # 0
    /\ \E i, j, k \in DOMAIN puts.calls :
          /\ SegmentPutNotSuperseded(i)
          /\ PutDescriptorListed(i)
          /\ puts.calls[j].pc = "loaded"
          /\ puts.calls[j].op = "segment"
          /\ puts.calls[j].generation = puts.calls[i].generation
          /\ puts.mu = j
          /\ puts.calls[k].pc = "lock"

\* every manifest lists its segments in strictly increasing txID order
ManifestsStrictlyIncreasing ==
    \A r \in Replicas :
        LET segs == replicas[r].state.Segments
        IN \A i, j \in DOMAIN segs : i < j => segs[i].TxID < segs[j].TxID

\* every segment a manifest lists is filed in the shadow log under the
\* generation of its descriptor and under no other
GenerationsAgree ==
    \A r \in Replicas :
        \A d \in Range(replicas[r].state.Segments) :
            /\ \E f \in shadowSegs : f.key = <<d.Gen, d.TxID>>
            /\ \A f \in shadowSegs : f.key[2] = d.TxID => f.key[1] = d.Gen

\* C29: with the OnPageFlush calls of consecutive transactions delivered
\* concurrently, every replica's manifest lists its segments in strictly
\* increasing txID order, and the shadow log and the manifests agree on
\* the generation of each segment.
C29_ConcurrentFlushKeepsOrder ==
    ManifestsStrictlyIncreasing /\ GenerationsAgree

\* what LatestState of replica r reports has a snapshot
ReportsSnapshot(r) == replicas[r].state.Snapshot # NoSnapshot

\* C30: once the manifest of a replica has held a snapshot, no step of the
\* controller (commit, snapshot, generation rotation) leaves it without
\* one.
C30_SnapshotNeverLost ==
    [][\A r \in Replicas : ReportsSnapshot(r) => ReportsSnapshot(r)']_vars

\* replica r stores the snapshot and every segment its manifest names
ManifestArtefactsExist(r) ==
    LET state == replicas[r].state
    IN /\ state.Snapshot # NoSnapshot =>
            \E f \in replicas[r].snaps :
                f.key = <<state.Snapshot.Gen, state.Snapshot.CreatedAt,
                          state.Snapshot.TxID>>
       /\ \A d \in Range(state.Segments) :
            \E f \in replicas[r].segs : f.key = <<d.Gen, d.TxID>>

\* C31: after any interleaving of uploads and Prune calls, every replica
\* still stores the snapshot and every segment its manifest names.
C31_PruneKeepsManifestArtefacts ==
    \A r \in Replicas : ManifestArtefactsExist(r)

\* the snapshot of the call in flight is complete in the shadow log
SnapshotStaged ==
    \E f \in shadowSnaps :
        /\ f.key = <<call.generation, call.snap.Header.CreatedAt,
                     call.snap.Header.TxID>>
        /\ f.body = marshalSnapshot(call.snap)

\* replica r stores the snapshot of the call in flight
SnapshotStored(r) ==
    \E f \in replicas[r].snaps :
        f.key = <<call.generation, call.snap.Header.CreatedAt,
                  call.snap.Header.TxID>>

\* the replicas whose PutSnapshot failed in the call in flight
SnapshotRefusedBy == { e.src : e \in Range(call.snapErrs) }

\* the call that has just returned ran createSnapshot
SnapshotAttempted ==
    call.snapTaken \/ \E e \in Range(call.errs) : e.msg = "create snapshot"

\* lastSnapshot moves only at the end of a snapshot that is staged and that
\* every replica stores and names in its manifest
AdvancesOnlyWhenAccepted ==
    [][lastSnapshot' # lastSnapshot =>
         /\ pc = "putsnap"
         /\ SnapshotStaged
         /\ \A r \in Replicas :
              /\ SnapshotStored(r)
              /\ replicas[r].state.Snapshot =
                    SnapshotDescriptor(call.generation, call.snap)
         /\ lastSnapshot' = call.snap.Header.CreatedAt]_vars

\* a call in which a PutSnapshot failed returns an error, leaves
\* lastSnapshot alone and leaves the snapshot in the shadow log and on the
\* replicas that took it
FailedSnapshotStays ==
    [][(pc = "putsnap" /\ pc' = "idle" /\ call.snapErrs # <<>>) =>
         /\ lastSnapshot' = lastSnapshot
         /\ call'.ret = "err"
         /\ SnapshotStaged'
         /\ \A r \in Replicas \ SnapshotRefusedBy : SnapshotStored(r)']_vars

\* C32 as stated: lastSnapshot advances only for a snapshot staged and
\* accepted by every replica; after a failed PutSnapshot it is unchanged,
\* the snapshot stays where it was written, and the next OnPageFlush runs
\* createSnapshot again.
C32_RetryAtNextFlush ==
    /\ AdvancesOnlyWhenAccepted
    /\ FailedSnapshotStays
    /\ [][(hist.retry /\ pc # "idle" /\ pc' = "idle") =>
            SnapshotAttempted']_vars

\* C32: lastSnapshot advances only for a snapshot staged and accepted by
\* every replica; after a failed PutSnapshot it is unchanged, the snapshot
\* stays where it was written, and the next OnPageFlush that stages its
\* segment runs createSnapshot again.
C32_RetryAtNextStagedFlush ==
    /\ AdvancesOnlyWhenAccepted
    /\ FailedSnapshotStays
    /\ [][(hist.retry /\ call.staged /\ pc # "idle" /\ pc' = "idle") =>
            SnapshotAttempted']_vars

\* C32 witness: the call after one whose PutSnapshot failed has taken a
\* snapshot again, and the failed one is still in the shadow log
C32_Witness ==
    /\ hist.retry
    /\ pc = "putsnap"
    /\ call.snapTaken
    /\ SnapshotStaged
    /\ Cardinality(shadowSnaps) > 1

\* C33: at most one retention trigger is pending, a trigger raised while
\* one is pending leaves one pending, and a call that has reached its
\* trigger can always take its next step, whatever the retention
\* goroutine is doing.
C33_TriggerNeverBlocks ==
    /\ retentionCh \in 0..RetentionChCap
    /\ (pc = "put" /\ call.idx > NumReplicas) => ENABLED MaybeSnapshot
    /\ (pc = "putsnap" /\ call.idx > NumReplicas) => ENABLED FinishSnapshot

\* C33 witness: a call has returned after raising its trigger while one
\* was pending and the retention goroutine was in a pass or had exited
C33_Witness ==
    /\ hist.dropped
    /\ retentionCh = RetentionChCap
    /\ pc = "idle"
    /\ call.ret # "none"

\* the objects replica record rep holds
ObjectsOf(rep) == rep.snaps \cup rep.segs

\* the objects the pass at hand removes from replica r when no removal
\* fails: its candidates
PruneCandidates(r) ==
    ObjectsOf(replicas[r])
        \ ObjectsOf(Prune(r, life.gen, ConfiguredRetention, now, {}).rep)

\* the candidates of replica r whose removal fails
FailingCandidates(r, failed) == { f \in PruneCandidates(r) : f.key \in failed }

\* with the removals in failed failing, Prune on replica r still removes
\* every other candidate
PruneGoesOn(r, failed) ==
    ObjectsOf(Prune(r, life.gen, ConfiguredRetention, now, failed).rep)
        = (ObjectsOf(replicas[r]) \ PruneCandidates(r))
              \cup FailingCandidates(r, failed)

\* Prune on replica r returns an error exactly when a removal failed
PruneReportsFailure(r, failed) ==
    Prune(r, life.gen, ConfiguredRetention, now, failed).err
        = (FailingCandidates(r, failed) # {})

\* C34: in a Prune call, a failed deletion of one candidate does not stop
\* the pass (every other expired snapshot and covered segment is still
\* removed) and the call returns the failure.
C34_PruneContinuesAndReports ==
    life.loop = "pass" =>
        \A r \in Replicas, failed \in RemoveFailures :
            PruneGoesOn(r, failed) /\ PruneReportsFailure(r, failed)

\* an OnPageFlush call returns in this step
CallReturns ==
    /\ pc' = "idle"
    /\ call'.ret # "none"
    /\ pc # "idle" \/ call'.n # call.n

\* a call that follows one whose staging failed and names it as its parent
\* is given the generation of that call
ContinuesAfterUnstaged ==
    [][(/\ pc = "idle" /\ pc' = "shadow"
        /\ call.segment # NoSegment
        /\ ~call.staged
        /\ call'.ParentTxID = call.TxID)
       => call'.generation = call.generation]_vars

NoSnapshotsError(entry) ==
    IF entry = "auto" THEN "no snapshots available"
    ELSE "no replica snapshots available"

\* the restore went to the replicas
ReplicaRestore ==
    /\ restoreRes.n > 0
    /\ restoreRes.entry \in {"auto", "standalone"}
    /\ restoreRes.contacted # {}

\* C36: during replica restore a replica whose LatestState fails is passed
\* over like a replica without a snapshot: it is never the source, the next
\* configured replica is consulted, and when no replica yields a snapshot
\* the restore fails with the no-snapshots error
C36_LatestStateErrorIsSkipped ==
    ReplicaRestore =>
        /\ \A r \in restoreRes.latestErr :
              /\ restoreRes.source # r
              /\ r < NumReplicas => r + 1 \in restoreRes.contacted
        /\ restoreRes.source = 0
              => restoreRes.err = NoSnapshotsError(restoreRes.entry)

\* a restore that passed over a failing first replica and took the second
\* replica's snapshot descriptor
C36_Witness ==
    /\ ReplicaRestore
    /\ restoreRes.latestErr = {1}
    /\ replicas[1].state.Snapshot # NoSnapshot
    /\ restoreRes.source = 2

\* a restore whose every replica failed LatestState
C36_AllFailWitness ==
    /\ ReplicaRestore
    /\ restoreRes.latestErr = Replicas
    /\ restoreRes.err = NoSnapshotsError(restoreRes.entry)

\* C37: at every point of a restore, whichever statement fails and
\* wherever the process dies, the target file is what it was before the
\* restore or the complete restored image, and once restoreToTarget has
\* returned an error no temporary file is left
C37_TargetOldOrComplete ==
    tmp.step # "none" =>
        /\ \/ target = tmp.before
           \/ target = RestoredImage(supplied.snapshot, supplied.segments)
        /\ tmp.step = "done" =>
              target = RestoredImage(supplied.snapshot, supplied.segments)
        /\ tmp.step = "failed" => ~tmp.exists

\* applySegments failed after a segment had been written into the temporary
\* file: the target is untouched and the temporary file is gone
C37_Witness ==
    /\ tmp.step = "failed"
    /\ restoreRes.err = "write segment frame"
    /\ Len(tmp.todo) < Len(supplied.segments)
    /\ target = tmp.before
    /\ target # RestoredImage(supplied.snapshot, supplied.segments)
    /\ ~tmp.exists

\* the process died with part of a segment in the temporary file
C37_CrashWitness ==
    /\ tmp.step = "crashed"
    /\ tmp.exists
    /\ tmp.todo # <<>>
    /\ tmp.bytes # RestoredImage(supplied.snapshot, supplied.segments)
    /\ target = tmp.before

\* a restore that replaced an existing target
C37_DoneWitness ==
    /\ tmp.step = "done"
    /\ tmp.before # <<>>
    /\ target # tmp.before
    /\ supplied.segments # <<>>

\* C38: staging in the shadow log is atomic at the file level: every file
\* at a final segment or snapshot path of the shadow log holds the complete
\* encoded artifact, also after a write that failed part-way
C38_ShadowFilesComplete ==
    \A f \in shadowSegs \cup shadowSnaps : f.body.fmt = "file"

\* the PutSegment call on replica r is running
Uploading(r) == pc = "put" /\ call.begun = r /\ call.idx = r

\* the fan-out has not yet called PutSegment on replica r
NotYetCalled(r) == pc = "put" /\ call.begun < r

\* C39: during the fan-out of a segment the uploads run in parallel: while
\* PutSegment on one replica has not returned, PutSegment on every replica
\* not yet called can start
C39_UploadsStartInParallel ==
    \A r, s \in Replicas :
        (Uploading(r) /\ NotYetCalled(s)) => ENABLED BeginPutSegment(s)

\* the complete snapshots of the shadow log created at or before the
\* retention cutoff, the newest of each generation left out
ExpiredShadowSnapshots ==
    { f \in shadowSnaps :
        /\ ~decodeSnapshotFile(f.body).err
        /\ f.key[2] <= now - ConfiguredRetention
        /\ \E g \in shadowSnaps : g.key[1] = f.key[1] /\ g.key[2] > f.key[2] }

\* the segments of the shadow log an expired snapshot covers
CoveredShadowSegments ==
    { s \in shadowSegs :
        \E f \in ExpiredShadowSnapshots :
            s.key[1] = f.key[1] /\ s.key[2] <= f.key[3] }

\* C40: retention applies to the shadow log as well: once a retention pass
\* runs, the expired snapshots of the shadow log (other than the newest)
\* and the segments they cover are eventually removed
C40_ShadowLogPruned ==
    (life.loop = "pass"
        /\ ExpiredShadowSnapshots \cup CoveredShadowSegments # {})
    ~> (ExpiredShadowSnapshots \cup CoveredShadowSegments = {})

====
